---- MODULE Spec2Model ----
(***************************************************************************)
(* Fake-source injection and recovery of diffimageml/fakeplanting.py:      *)
(* FakePlanter.plant_fakes, FitsImage.add_psf, the header provenance       *)
(* (FK<idx><field> cards), FakePlanter.get_fake_locations and              *)
(* FakePlanter.calculate_detection_efficiency, and the star selection of   *)
(* FitsImage: fetch_gaia_sources, extract_psf_stars, build_epsf_model.     *)
(*                                                                         *)
(* Pixel coordinates, pixel values, fluxes and scale factors are integers. *)
(* A header is an ordered list of keys with a value per key; a key is the  *)
(* sequence of its characters, so slicing and substring tests are those of *)
(* the code.  Header values are tagged tuples <<tag, payload>>.            *)
(***************************************************************************)
EXTENDS Integers, Sequences, FiniteSets, TLC

(*************************** program constants *****************************)
_MAX_N_PLANTS_ == 999
DefaultGridSize == 2

(******************************** bounds ***********************************)
ImgRows == 3          \* data.shape[0]
ImgCols == 4          \* data.shape[1]
MaxLocs == 2          \* longest list of positions passed to an injection
MaxDets == 2          \* longest detection catalog
NCapSmall == 100      \* the short lists of the cap study have 1..NCapSmall positions
MaxStars == 3         \* longest Gaia catalog of a star field
FrameRows == 100      \* data.shape[0] of a star field
FrameCols == 300      \* data.shape[1] of a star field
MaxOffsets == 2       \* longest list of offsets passed to get_lensed_locations

VARIABLES
  hdus,      \* the HDU objects: "sci" is the one read from the file, "cp" the
             \* copy returned by the last injection (none when it raised)
  diffim,    \* FakePlanter.diffim: a FitsImage, or the bare HDU left by the matcher
  planter,   \* has_fakes, detection_efficiency, detection_table of the FakePlanter
  last,      \* the last call: its name, arguments, outcome and return value
  env        \* around the image: the saved Gaia catalog and ePSF model files,
             \* and the sources the Gaia database holds for its footprint

vars == <<hdus, diffim, planter, last, env>>

(******************************* utilities *********************************)
Min(a, b) == IF a < b THEN a ELSE b
Max(a, b) == IF a > b THEN a ELSE b
Abs(a) == IF a < 0 THEN -a ELSE a

None == [set |-> FALSE, v |-> <<>>]
Some(x) == [set |-> TRUE, v |-> x]

IntV(i) == <<"int", i>>
StrV(s) == <<"str", s>>
BoolV(b) == <<"bool", b>>

(**************************** str, zfill, format ***************************)
Digits == <<"0", "1", "2", "3", "4", "5", "6", "7", "8", "9">>

RECURSIVE str(_)
str(n) == IF n < 10 THEN <<Digits[n + 1]>>
          ELSE str(n \div 10) \o <<Digits[(n % 10) + 1]>>

zfill(s, width) == IF Len(s) >= width THEN s
                   ELSE [i \in 1..(width - Len(s)) |-> "0"] \o s

\* 'FK{}X'.format(idx), 'FK%sY' % fake_id, ...
FK(idx, field) == <<"F", "K">> \o idx \o field

fX == <<"X">>
fY == <<"Y">>
fRA == <<"R", "A">>
fDEC == <<"D", "E", "C">>
fSCA == <<"S", "C", "A">>
fF == <<"F">>
fMOD == <<"M", "O", "D">>
fDET == <<"D", "E", "T">>
FakeFields == {fX, fY, fRA, fDEC, fSCA, fF, fMOD}

kRADESYS == <<"R", "A", "D", "E", "S", "Y", "S">>
kCRVAL1 == <<"C", "R", "V", "A", "L", "1">>
kCRVAL2 == <<"C", "R", "V", "A", "L", "2">>
kCROTA2 == <<"C", "R", "O", "T", "A", "2">>
kFAKESN == <<"F", "A", "K", "E", "S", "N">>
kN_FAKE == <<"N", "_", "F", "A", "K", "E">>
kF_EPSF == <<"F", "_", "E", "P", "S", "F">>

(******************************* the header ********************************)
EmptyHeader == [keys |-> <<>>, val |-> <<>>]

\* header[key] = value: an existing card keeps its place, a new one is appended
HdrSet(h, k, v) ==
  IF k \in DOMAIN h.val THEN [h EXCEPT !.val[k] = v]
  ELSE [keys |-> Append(h.keys, k), val |-> (k :> v) @@ h.val]

HdrHas(h, k) == k \in DOMAIN h.val

\* 'FK' in key
HasSub(key, sub) ==
  \E i \in 1..(Len(key) - Len(sub) + 1) : SubSeq(key, i, i + Len(sub) - 1) = sub

\* key[a:b] of Python, 0-based, clipped to the length of the key
Slice(key, a, b) == SubSeq(key, a + 1, Min(b, Len(key)))

(************************** the sky transform ******************************)
\* cosine and sine of an angle in degrees, for the multiples of 90 the frames
\* and the offsets of the model are turned by
cosd(deg) == <<1, 0, -1, 0>>[((deg \div 90) % 4) + 1]
sind(deg) == <<0, 1, 0, -1>>[((deg \div 90) % 4) + 1]

\* WCS(cphdr): the frame's reference sky coordinates and, when the header
\* holds the card, the rotation of its pixel axes against the sky
WCS(hdr) ==
  [crval1 |-> hdr.val[kCRVAL1][2], crval2 |-> hdr.val[kCRVAL2][2],
   crota2 |-> IF kCROTA2 \in DOMAIN hdr.val THEN hdr.val[kCROTA2][2] ELSE 0]

pixel_to_skycoord(xp, yp, wcs) ==
  [ra |-> wcs.crval1 + xp * cosd(wcs.crota2) - yp * sind(wcs.crota2),
   dec |-> wcs.crval2 + xp * sind(wcs.crota2) + yp * cosd(wcs.crota2)]

\* the pixel (x, y) of the frame that lies at the sky position sky
skycoord_to_pixel(sky, wcs) ==
  << (sky.ra - wcs.crval1) * cosd(wcs.crota2) + (sky.dec - wcs.crval2) * sind(wcs.crota2),
     (sky.dec - wcs.crval2) * cosd(wcs.crota2) - (sky.ra - wcs.crval1) * sind(wcs.crota2) >>

\* str(sky.ra.hms), str(sky.dec.dms)
hms(ra) == StrV(<<"h", "m", "s", "(">> \o str(ra) \o <<")">>)
dms(dec) == StrV(<<"d", "m", "s", "(">> \o str(dec) \o <<")">>)

(******************************* the image *********************************)
Pixels == (0..(ImgRows - 1)) \X (0..(ImgCols - 1))

\* the difference image read by FitsImage.read_fits_file: pixel (row, col)
BaseData == [p \in Pixels |-> 100 + p[1] * ImgCols + p[2]]

BaseHeader ==
  HdrSet(HdrSet(HdrSet(EmptyHeader, kRADESYS, StrV(<<"I", "C", "R", "S">>)),
                kCRVAL1, IntV(10)), kCRVAL2, IntV(20))

NoHDU == [data |-> <<>>, header |-> EmptyHeader]
BaseHDU == [data |-> BaseData, header |-> BaseHeader]

\* a file whose HDU holds a one-dimensional array (a single row of pixels)
LineData == [p \in {<<c>> : c \in 0..(ImgCols - 1)} |-> 100 + p[1]]
LineHDU == [data |-> LineData, header |-> BaseHeader]

\* data.ndim: the length of the indices of the array
ndim(data) == IF DOMAIN data = {} THEN 0 ELSE Len(CHOOSE p \in DOMAIN data : TRUE)

\* hdu.copy(): a new HDU object holding a copy of the data and of the header;
\* the result is the reference of the new object
hdu_copy_alias(hdu) == hdu
hdu_copy(hdu) == "new"

\* the objects a call on the HDU value h works on: h itself, under the
\* reference "sci", and the object "new" that hdu.copy() allocates
Heap(h) == [r \in {"sci", "new"} |-> h]

(***************************** the PSF array *******************************)
\* epsf of plant_fakes: a 2-d array, a[i][j] the value of row i, column j
E1 == [shape |-> <<1, 1>>, a |-> << <<1>> >>]
E3 == [shape |-> <<3, 3>>, a |-> << <<0, 1, 0>>, <<1, 2, 1>>, <<0, 1, 0>> >>]
Epsfs == {E1, E3}

\* epsf*sca
Scaled(epsf, sca) ==
  [epsf EXCEPT !.a = [i \in 1..epsf.shape[1] |->
                        [j \in 1..epsf.shape[2] |-> epsf.a[i][j] * sca]]]

RECURSIVE SumSeq(_)
SumSeq(s) == IF s = <<>> THEN 0 ELSE s[1] + SumSeq(Tail(s))

\* np.sum(epsf)
np_sum(epsf) == SumSeq([i \in 1..epsf.shape[1] |-> SumSeq(epsf.a[i])])

\* int(np.round(a2/2)): numpy rounds a half to the even neighbour
np_round_half(a2) ==
  IF a2 % 2 = 0 THEN a2 \div 2
  ELSE IF ((a2 - 1) \div 2) % 2 = 0 THEN (a2 - 1) \div 2 ELSE (a2 + 1) \div 2

\* np.arange(int(np.round(c - n/2)), int(np.round(c + n/2)) + 2)[:n], as the
\* first index lo and the number len of indices lo, lo+1, ...
window(c, n) ==
  [lo |-> np_round_half(2 * c - n),
   len |-> Min(n, Max(np_round_half(2 * c + n) + 2 - np_round_half(2 * c - n), 0))]

\* a numpy index: negative indices count from the end
InRange(i, size) == -size <= i /\ i < size
Norm(i, size) == IF i < 0 THEN i + size ELSE i

\* the indices of cpim[rows[:, None], cols] exist
IndexAddOK(rows, cols) ==
  /\ rows.len = 0 \/ (InRange(rows.lo, ImgRows) /\ InRange(rows.lo + rows.len - 1, ImgRows))
  /\ cols.len = 0 \/ (InRange(cols.lo, ImgCols) /\ InRange(cols.lo + cols.len - 1, ImgCols))

\* epsfn broadcasts to the indexed block
BroadcastOK(rows, cols, shape) == rows.len = shape[1] /\ cols.len = shape[2]

\* cpim[rows[:, None], cols] += arr: the sums are taken on the array as it
\* is before the statement and stored element by element, in index order
RECURSIVE IndexAddFrom(_, _, _, _, _, _)
IndexAddFrom(acc, data, rows, cols, arr, k) ==
  IF k >= rows.len * cols.len THEN acc
  ELSE LET i == (k \div cols.len) + 1
           j == (k % cols.len) + 1
           p == <<Norm(rows.lo + i - 1, ImgRows), Norm(cols.lo + j - 1, ImgCols)>>
       IN IndexAddFrom([acc EXCEPT ![p] = data[p] + arr.a[i][j]],
                       data, rows, cols, arr, k + 1)

IndexAdd(data, rows, cols, arr) == IndexAddFrom(data, data, rows, cols, arr, 0)

(****************************** plant_fakes ********************************)
\* `if SCA:` -- a list that is given and not empty
Truthy(SCA) == SCA.set /\ SCA.v # <<>>

Raise(heap, exc) == [heap |-> heap, raised |-> exc]

\* one pass of `for pix in locations` on the HDU cphdu of the heap, n the
\* running index
PlantOne(st, cphdu, wcs, epsf, locations, SCA, n) ==
  LET xp == locations[n + 1][1]
      yp == locations[n + 1][2]
      sky == pixel_to_skycoord(xp, yp, wcs)
      idx == zfill(str(n), 3)
      h4 == HdrSet(HdrSet(HdrSet(HdrSet(st.heap[cphdu].header,
                FK(idx, fX), IntV(xp)), FK(idx, fY), IntV(yp)),
                FK(idx, fRA), hms(sky.ra)), FK(idx, fDEC), dms(sky.dec))
      sca == IF Truthy(SCA) THEN SCA.v[n + 1] ELSE 1
      epsfn == Scaled(epsf, sca)
      h7 == HdrSet(HdrSet(HdrSet(h4,
                FK(idx, fSCA), IntV(sca)), FK(idx, fF), IntV(np_sum(epsfn))),
                FK(idx, fMOD), StrV(<<"N", "A">>))
      rows == window(yp, epsf.shape[1])
      cols == window(xp, epsf.shape[2])
  IN IF Truthy(SCA) /\ n >= Len(SCA.v)
       THEN Raise([st.heap EXCEPT ![cphdu].header = h4], "IndexError")
     ELSE IF ndim(st.heap[cphdu].data) # 2 \/ ~IndexAddOK(rows, cols)
       THEN Raise([st.heap EXCEPT ![cphdu].header = h7], "IndexError")
     ELSE IF ~BroadcastOK(rows, cols, epsf.shape)
       THEN Raise([st.heap EXCEPT ![cphdu].header = h7], "ValueError")
     ELSE Raise([st.heap EXCEPT
                   ![cphdu].header = h7,
                   ![cphdu].data = IndexAdd(st.heap[cphdu].data, rows, cols, epsfn)],
                "none")

\* the passes lo..hi-1 of the loop, in order; the first exception ends it.
\* The range is halved so that the evaluation depth stays logarithmic.
RECURSIVE PlantLoop(_, _, _, _, _, _, _, _)
PlantLoop(st, cphdu, wcs, epsf, locations, SCA, lo, hi) ==
  IF st.raised # "none" \/ hi <= lo THEN st
  ELSE IF hi = lo + 1 THEN PlantOne(st, cphdu, wcs, epsf, locations, SCA, lo)
  ELSE PlantLoop(PlantLoop(st, cphdu, wcs, epsf, locations, SCA,
                           lo, (lo + hi) \div 2),
                 cphdu, wcs, epsf, locations, SCA, (lo + hi) \div 2, hi)

\* plant_fakes on the HDU value hdu of diffim.sci: the objects when it ends
\* (cphdu the one it returns) and the exception that ended it, if any
plant_fakes(hdu, epsf, locations, SCA) ==
  LET cphdu == hdu_copy("sci")
      st == PlantLoop(Raise(Heap(hdu), "none"), cphdu, WCS(hdu.header),
                      epsf, locations, SCA, 0, Len(locations))
      h10 == HdrSet(HdrSet(HdrSet(st.heap[cphdu].header,
                 kFAKESN, BoolV(TRUE)),
                 kN_FAKE, StrV(str(Len(locations)))),
                 kF_EPSF, StrV(str(np_sum(epsf))))
  IN IF st.raised # "none" THEN [st EXCEPT !.heap = [r \in {"sci", "cp"} |->
                                    IF r = "sci" THEN st.heap["sci"] ELSE NoHDU]]
     ELSE Raise([r \in {"sci", "cp"} |->
                   IF cphdu = r \/ r = "cp"
                     THEN [st.heap[cphdu] EXCEPT !.header = h10]
                     ELSE st.heap[r]], "none")

(******************************** add_psf **********************************)
\* the PSF model handed to add_psf, evaluated at pixel (x, y) for the
\* parameters x_0, y_0 and flux: a peak with its four neighbours
PsfModel == [x_0 |-> 0, y_0 |-> 0, flux |-> 1]
psf_eval(psf, x, y) ==
  psf.flux * (IF x = psf.x_0 /\ y = psf.y_0 THEN 2
              ELSE IF Abs(x - psf.x_0) + Abs(y - psf.y_0) = 1 THEN 1 ELSE 0)

ColNames == {"x_fit", "y_fit", "flux_fit"}

\* the image indices that extract_array(indices, subshape, (y_0, x_0)) cuts
\* out along one axis, and add_array adds to
InCut(i, c, n) == c - (n \div 2) <= i /\ i < c - (n \div 2) + n

\* addeddata += psf(*indicies_reversed), or add_array(addeddata, psf(x, y), (y_0, x_0))
AddPsfData(data, psf, subshape) ==
  [p \in Pixels |->
     IF subshape.set => (InCut(p[1], psf.y_0, subshape.v[1]) /\
                         InCut(p[2], psf.x_0, subshape.v[2]))
       THEN data[p] + psf_eval(psf, p[2], p[1])
       ELSE data[p]]

\* the passes n, n+1, ... of `for row in posflux`: the header of the copy, the
\* array addeddata and the parameters of the copied model after them
RECURSIVE AddLoop(_, _, _, _)
AddLoop(st, rows, subshape, n) ==
  IF n >= Len(rows) THEN st
  ELSE LET row == rows[n + 1]
           psf == [x_0 |-> row.x_fit, y_0 |-> row.y_fit, flux |-> row.flux_fit]
           sky == pixel_to_skycoord(row.x_fit, row.y_fit, st.wcs)
           idx == zfill(str(n), 3)
           hdr == HdrSet(HdrSet(HdrSet(HdrSet(HdrSet(HdrSet(st.header,
                    FK(idx, fX), IntV(row.x_fit)), FK(idx, fY), IntV(row.y_fit)),
                    FK(idx, fRA), hms(sky.ra)), FK(idx, fDEC), dms(sky.dec)),
                    FK(idx, fF), IntV(row.flux_fit)), FK(idx, fMOD), StrV(<<"N", "A">>))
       IN AddLoop([st EXCEPT !.header = hdr, !.psf = psf,
                             !.addeddata = AddPsfData(st.addeddata, psf, subshape)],
                  rows, subshape, n + 1)

\* `if hasattr(posflux, 'colnames')`: a table that lacks one of the columns
missing_column_x_only(posflux) == posflux.isTable /\ "x_fit" \notin posflux.colnames
missing_column(posflux) == posflux.isTable /\ ~(ColNames \subseteq posflux.colnames)

\* add_psf on the HDU value hdu of self.sci: the objects when it ends and the
\* exception that ended it, if any
add_psf(hdu, psf, posflux, subshape) ==
  LET cphdu == hdu_copy("sci")
      heap == Heap(hdu)
      st == AddLoop([header |-> heap[cphdu].header, addeddata |-> heap[cphdu].data,
                     psf |-> psf, wcs |-> WCS(hdu.header)],
                    posflux.rows, subshape, 0)
      h3 == HdrSet(HdrSet(HdrSet(st.header,
                kFAKESN, BoolV(TRUE)),
                kN_FAKE, StrV(str(Len(posflux.rows)))),
                kF_EPSF, StrV(str(st.psf.flux)))
      out == [data |-> st.addeddata, header |-> h3]
  IN IF ndim(heap[cphdu].data) # 2 \/ missing_column(posflux)
       THEN Raise([r \in {"sci", "cp"} |-> IF r = "sci" THEN heap["sci"] ELSE NoHDU],
                  "ValueError")
     ELSE Raise([r \in {"sci", "cp"} |->
                   IF cphdu = r \/ r = "cp" THEN out ELSE heap[r]], "none")

(*************************** get_fake_locations ****************************)
\* 'FK' in key and 'X' in key
IsFakeXKey(key) == HasSub(key, <<"F", "K">>) /\ HasSub(key, fX)

\* key[2:2+len(str(_MAX_N_PLANTS_))]
FakeIdOf(key) == Slice(key, 2, 2 + Len(str(_MAX_N_PLANTS_)))

\* get_fake_locations(image_with_fakes) on the header of the image: the ids
\* and the (x, y) positions in the order of the header; KeyError when the
\* card FK<id>Y of an id is missing
get_fake_locations(header) ==
  LET fake_plant_x_keys == SelectSeq(header.keys, IsFakeXKey)
      fakeIDs == [i \in 1..Len(fake_plant_x_keys) |-> FakeIdOf(fake_plant_x_keys[i])]
  IN IF \E i \in 1..Len(fakeIDs) : ~HdrHas(header, FK(fakeIDs[i], fY))
       THEN [raised |-> "KeyError", fakeIDs |-> <<>>, fake_positions |-> <<>>]
     ELSE [raised |-> "none", fakeIDs |-> fakeIDs,
           fake_positions |->
             [i \in 1..Len(fakeIDs) |->
                <<header.val[fake_plant_x_keys[i]][2],
                  header.val[FK(fakeIDs[i], fY)][2]>>]]

(********************* calculate_detection_efficiency **********************)
\* the box test of the matcher, pixel a detection and i a fake position
InBoxInclusive(pixel, i, search) ==
  /\ pixel[1] >= i[1] - search /\ pixel[1] <= i[1] + search
  /\ pixel[2] >= i[2] - search /\ pixel[2] <= i[2] + search
InBox(pixel, i, search) ==
  /\ pixel[1] > i[1] - search /\ pixel[1] < i[1] + search
  /\ pixel[2] > i[2] - search /\ pixel[2] < i[2] + search

\* binary_detection_dict = {key:0 for key in fake_plant_ids}
binary_detection_dict_ones(fake_plant_ids) ==
  [key \in {fake_plant_ids[i] : i \in 1..Len(fake_plant_ids)} |-> 1]
binary_detection_dict(fake_plant_ids) ==
  [key \in {fake_plant_ids[i] : i \in 1..Len(fake_plant_ids)} |-> 0]

\* `for ind in range(len(fake_plant_locations))` up to its break: the first
\* index (from 1) whose box holds the pixel, 0 when the loop ends without one
FirstMatch(pixel, fake_plant_locations, search) ==
  IF \E ind \in 1..Len(fake_plant_locations) :
       InBox(pixel, fake_plant_locations[ind], search)
    THEN CHOOSE ind \in 1..Len(fake_plant_locations) :
           /\ InBox(pixel, fake_plant_locations[ind], search)
           /\ \A k \in 1..(ind - 1) : ~InBox(pixel, fake_plant_locations[k], search)
    ELSE 0

\* `for pixel in tbl_pixels` from the k-th pixel on: truths and the dict
RECURSIVE MatchLoop_last_only(_, _, _, _, _, _)
MatchLoop_last_only(st, tbl_pixels, fake_plant_ids, fake_plant_locations, search, k) ==
  IF k > Len(tbl_pixels) THEN st
  ELSE LET pixel == tbl_pixels[k]
           ind == FirstMatch(pixel, fake_plant_locations, search)
       IN MatchLoop_last_only(
            IF ind = 0 THEN st
            ELSE [truths |-> <<<<fake_plant_locations[ind], pixel>>>>,
                  dict |-> [binary_detection_dict(fake_plant_ids)
                              EXCEPT ![fake_plant_ids[ind]] = 1]],
            tbl_pixels, fake_plant_ids, fake_plant_locations, search, k + 1)
RECURSIVE MatchLoop(_, _, _, _, _, _)
MatchLoop(st, tbl_pixels, fake_plant_ids, fake_plant_locations, search, k) ==
  IF k > Len(tbl_pixels) THEN st
  ELSE LET pixel == tbl_pixels[k]
           ind == FirstMatch(pixel, fake_plant_locations, search)
       IN MatchLoop(
            IF ind = 0 THEN st
            ELSE [truths |-> Append(st.truths, <<fake_plant_locations[ind], pixel>>),
                  dict |-> [st.dict EXCEPT ![fake_plant_ids[ind]] = 1]],
            tbl_pixels, fake_plant_ids, fake_plant_locations, search, k + 1)

\* plant_pixels: the fake positions of truths, each one once (first come first)
plant_pixels_all(truths) == [k \in 1..Len(truths) |-> truths[k][1]]
plant_pixels_of(truths) ==
  LET first == {k \in 1..Len(truths) : \A j \in 1..(k - 1) : truths[j][1] # truths[k][1]}
      nth(n) == CHOOSE k \in first : Cardinality({j \in first : j < k}) = n - 1
  IN [n \in 1..Cardinality(first) |-> truths[nth(n)][1]]

\* set_fake_detection_header: header['FK%sDET' % row['fakeID']] = row['detected']
\* for the rows lo..hi of the table, in order; the range is halved, and the
\* header of the rows before lo is evaluated first (Len(header.keys) >= 0 is
\* always true), so that the evaluation depth stays logarithmic
RECURSIVE set_fake_detection_header_detected(_, _, _, _)
set_fake_detection_header_detected(header, detection_table, lo, hi) ==
  IF Len(header.keys) >= 0 /\ hi < lo THEN header
  ELSE IF hi = lo
    THEN IF detection_table[lo].detected = 1
           THEN HdrSet(header, FK(detection_table[lo].fakeID, fDET), IntV(1))
           ELSE header
  ELSE set_fake_detection_header_detected(
         set_fake_detection_header_detected(header, detection_table,
                                            lo, (lo + hi) \div 2),
         detection_table, ((lo + hi) \div 2) + 1, hi)
RECURSIVE set_fake_detection_header(_, _, _, _)
set_fake_detection_header(header, detection_table, lo, hi) ==
  IF Len(header.keys) >= 0 /\ hi < lo THEN header
  ELSE IF hi = lo
    THEN HdrSet(header, FK(detection_table[lo].fakeID, fDET),
                IntV(detection_table[lo].detected))
  ELSE set_fake_detection_header(
         set_fake_detection_header(header, detection_table, lo, (lo + hi) \div 2),
         detection_table, ((lo + hi) \div 2) + 1, hi)

\* the matching itself (l.1480-1510) for the ids and positions of the fakes,
\* the detected pixels and the search radius
match_fakes_per_detection(fake_plant_ids, fake_plant_locations, tbl_pixels, search) ==
  LET st == MatchLoop([truths |-> <<>>, dict |-> binary_detection_dict(fake_plant_ids)],
                      tbl_pixels, fake_plant_ids, fake_plant_locations, search, 1)
      N_plants_detected == Len(plant_pixels_of(st.truths))
  IN [truths |-> st.truths,
      efficiency |-> <<N_plants_detected, Len(tbl_pixels)>>,
      detection_table |->
        [n \in 1..Len(fake_plant_ids) |->
           [fakeID |-> fake_plant_ids[n], pixX |-> fake_plant_locations[n][1],
            pixY |-> fake_plant_locations[n][2],
            detected |-> st.dict[fake_plant_ids[n]]]]]
match_fakes(fake_plant_ids, fake_plant_locations, tbl_pixels, search) ==
  LET st == MatchLoop([truths |-> <<>>, dict |-> binary_detection_dict(fake_plant_ids)],
                      tbl_pixels, fake_plant_ids, fake_plant_locations, search, 1)
      N_plants_detected == Len(plant_pixels_of(st.truths))
  IN [truths |-> st.truths,
      efficiency |-> <<N_plants_detected, Len(fake_plant_locations)>>,
      detection_table |->
        [n \in 1..Len(fake_plant_ids) |->
           [fakeID |-> fake_plant_ids[n], pixX |-> fake_plant_locations[n][1],
            pixY |-> fake_plant_locations[n][2],
            detected |-> st.dict[fake_plant_ids[n]]]]]

(******************************* the inputs ********************************)
\* the positions (x, y) handed to an injection, taken in turn from a cycle:
\* twice the same pixel, its neighbour, and the last column of the image;
\* and a list of one position in the first column
PosCycle == << <<1, 1>>, <<1, 1>>, <<2, 1>>, <<ImgCols - 1, 1>> >>
Pos(i) == PosCycle[((i - 1) % Len(PosCycle)) + 1]
Locs(start, n) == [i \in 1..n |-> Pos(start + i - 1)]
PlantLists ==
  {Locs(s, n) : s \in 1..Len(PosCycle), n \in 0..MaxLocs} \cup {<< <<0, 1>> >>}

\* the scale factors 2, 3, ... of a list of n positions
Scales(n) == [i \in 1..n |-> i + 1]
\* SCA of a call: none, one factor per position, or one factor too few
SCAsFor(locations) ==
  {None, Some(Scales(Len(locations))), Some(Scales(Len(locations) - 1))}

\* posflux: the rows (x_fit, y_fit, flux_fit) of the positions Locs(start, n),
\* with the fluxes 2, 3, ...
Rows(start, n) ==
  [i \in 1..n |-> [x_fit |-> Pos(start + i - 1)[1], y_fit |-> Pos(start + i - 1)[2],
                   flux_fit |-> i + 1]]
\* as an array, as a table, and as a table that lacks one of the columns
Posfluxes ==
  {[isTable |-> FALSE, colnames |-> {}, rows |-> Rows(1, n)] : n \in 0..MaxLocs}
  \cup {[isTable |-> TRUE, colnames |-> ColNames, rows |-> Rows(3, MaxLocs)]}
  \cup {[isTable |-> TRUE, colnames |-> ColNames \ {c}, rows |-> Rows(1, 1)] :
          c \in ColNames}

Subshapes == {None, Some(<<3, 3>>)}

\* the detected pixels (xcentroid, ycentroid) of a source catalog, taken in
\* turn from a cycle: twice the same pixel, and its two neighbours in the row
DetCycle == << <<1, 1>>, <<1, 1>>, <<2, 1>>, <<3, 1>> >>
Det(i) == DetCycle[((i - 1) % Len(DetCycle)) + 1]
Catalogs == {[i \in 1..n |-> Det(s + i - 1)] : s \in 1..Len(DetCycle), n \in 0..MaxDets}

\* source_catalog of a call
SourceCatalogs == {None} \cup {Some(c) : c \in Catalogs}

\* what detect_sources can find in an image: nothing, or the first pixel
DetectableCatalogs == {<<>>, <<Det(1)>>}

GridSizes == {DefaultGridSize - 1, DefaultGridSize}

(***************************** the state machine ***************************)
\* the record of a call: its name, its arguments, the exception it raised;
\* for the matcher, its local lists tbl_pixels and truths when it ended; for
\* the star selection, the catalog it started from, and whether the call
\* queried the Gaia database or ran the ePSF fit; for get_lensed_locations,
\* the list it returned
Call(op) ==
  [op |-> op, raised |-> "none", epsf |-> <<>>, locations |-> <<>>, SCA |-> None,
   posflux |-> <<>>, subshape |-> None, image |-> None, catalog |-> None,
   fake_plant_locations |-> None, gridSize |-> 0,
   tbl_pixels |-> <<>>, truths |-> <<>>,
   SNthresh |-> 0, gaiacat |-> None, save_suffix |-> None, overwrite |-> FALSE,
   queried |-> FALSE, fitted |-> FALSE,
   phis |-> <<>>, ds |-> <<>>, fluxes |-> None, ret |-> <<>>,
   filename |-> None, add_to_filename |-> None]

InjectionOps == {"plant_fakes", "add_psf"}

\* FitsImage.__init__ on a file holding the HDU "sci"
\* (plants and has_fakes are attributes the image gets in add_psf, l.376-377)
FitsImage == [isFitsImage |-> TRUE, hdu |-> "sci", sourcecatalog |-> None,
              plants |-> None, has_fakes |-> None, gaia_source_table |-> None, psfstars |-> None,
              epsf |-> None, fitted_stars |-> None, lensed_locations |-> None,
              zeropoint |-> None, stellar_phot_table |-> None, fakesncat |-> None]

\* no catalog file and no model file has been saved yet
NoFiles == [ecsv |-> None, pkl |-> None, gaia |-> <<>>, fsncat |-> None,
            addto |-> None]

\* a planted.fits written by an earlier plant_fakes(..., writetodisk=True)
PlantedFile == plant_fakes(BaseHDU, E3, Locs(2, MaxLocs), None).heap["cp"]

\* the files a FakePlanter is constructed on
DiffimFiles == {BaseHDU, PlantedFile, LineHDU}

\* FakePlanter.__init__
Init ==
  /\ \E file \in DiffimFiles : hdus = [r \in {"sci", "cp"} |->
                                         IF r = "sci" THEN file ELSE NoHDU]
  /\ diffim = FitsImage
  /\ planter = [has_fakes |-> FALSE, detection_efficiency |-> None,
                detection_table |-> None, searchim |-> None, templateim |-> None]
  /\ last = Call("__init__")
  /\ env = NoFiles

PlantFakes ==
  /\ diffim.isFitsImage
  /\ \E epsf \in Epsfs, locations \in PlantLists :
       \E SCA \in SCAsFor(locations) :
         LET r == plant_fakes(hdus[diffim.hdu], epsf, locations, SCA)
             call == [Call("plant_fakes") EXCEPT !.epsf = epsf,
                        !.locations = locations, !.SCA = SCA, !.raised = r.raised]
         IN /\ last' = call
            /\ UNCHANGED <<diffim, env>>
            /\ IF r.raised # "none"
                 THEN /\ hdus' = r.heap
                      /\ UNCHANGED planter
                 ELSE /\ hdus' = r.heap
                      /\ planter' = [planter EXCEPT !.has_fakes = TRUE]

AddPsf ==
  /\ diffim.isFitsImage
  /\ \E posflux \in Posfluxes, subshape \in Subshapes :
       LET r == add_psf(hdus[diffim.hdu], PsfModel, posflux, subshape)
           call == [Call("add_psf") EXCEPT !.posflux = posflux,
                      !.subshape = subshape, !.raised = r.raised]
       IN /\ last' = call
          /\ hdus' = r.heap
          /\ UNCHANGED <<planter, env>>
          /\ IF r.raised # "none" THEN UNCHANGED diffim
             ELSE diffim' = [diffim EXCEPT !.plants = Some(posflux.rows),
                                           !.has_fakes = Some(TRUE)]

Next == PlantFakes \/ AddPsf

Spec == Init /\ [][Next]_vars

(******************************* the matcher *******************************)
\* a bare HDU handed to the matcher as image_with_fakes
BareHDU(ref) == [isFitsImage |-> FALSE, hdu |-> ref, sourcecatalog |-> None,
                 plants |-> None]

\* calculate_detection_efficiency(img, fake_plant_locations, source_catalog,
\* gridSize), img the object image_with_fakes stands for and found the
\* catalog detect_sources finds if it is run
calculate_detection_efficiency(img, fake_plant_locations, source_catalog, gridSize, found) ==
  LET runsDetect == ~source_catalog.set /\ img.isFitsImage /\ ~img.sourcecatalog.set
      tbl_pixels == IF source_catalog.set THEN source_catalog.v
                    ELSE IF img.sourcecatalog.set THEN img.sourcecatalog.v
                    ELSE found
      diffim1 == IF runsDetect THEN [diffim EXCEPT !.sourcecatalog = Some(found)]
                 ELSE diffim
      got == get_fake_locations(hdus[img.hdu].header)
      m == match_fakes(got.fakeIDs, got.fake_positions, tbl_pixels, gridSize)
      call == [Call("calculate_detection_efficiency") EXCEPT
                 !.image = IF img.isFitsImage THEN None ELSE Some(img.hdu),
                 !.fake_plant_locations = fake_plant_locations,
                 !.catalog = source_catalog, !.gridSize = gridSize]
  IN IF ~source_catalog.set /\ ~img.isFitsImage
       THEN /\ last' = [call EXCEPT !.raised = "RuntimeError"]
            /\ UNCHANGED <<hdus, diffim, planter>>
     ELSE IF ~fake_plant_locations.set /\ got.raised # "none"
       THEN /\ last' = [call EXCEPT !.raised = got.raised]
            /\ diffim' = diffim1
            /\ UNCHANGED <<hdus, planter>>
     ELSE IF fake_plant_locations.set
       THEN \* fake_plant_ids is not bound (l.1486)
            /\ last' = [call EXCEPT !.raised = "NameError", !.tbl_pixels = tbl_pixels]
            /\ diffim' = diffim1
            /\ UNCHANGED <<hdus, planter>>
     ELSE IF Len(got.fake_positions) = 0
       THEN /\ last' = [call EXCEPT !.raised = "ZeroDivisionError",
                          !.tbl_pixels = tbl_pixels, !.truths = m.truths]
            /\ diffim' = diffim1
            /\ UNCHANGED <<hdus, planter>>
     ELSE /\ last' = [call EXCEPT !.tbl_pixels = tbl_pixels, !.truths = m.truths]
          /\ hdus' = [hdus EXCEPT ![img.hdu].header =
                        set_fake_detection_header(@, m.detection_table, 1,
                                                  Len(m.detection_table))]
          /\ planter' = [planter EXCEPT
                           !.detection_efficiency = Some(m.efficiency),
                           !.detection_table = Some(m.detection_table)]
          /\ diffim' = BareHDU(img.hdu)

\* image_with_fakes of a call: the default self.diffim, or the HDU that an
\* injection returned
ImagesWithFakes ==
  {diffim} \cup (IF hdus["cp"] = NoHDU THEN {} ELSE {BareHDU("cp")})

CalculateDetectionEfficiency ==
  /\ UNCHANGED env
  /\ \E img \in ImagesWithFakes,
        source_catalog \in SourceCatalogs, gridSize \in GridSizes :
       \E found \in IF ~source_catalog.set /\ img.isFitsImage /\ ~img.sourcecatalog.set
                      THEN DetectableCatalogs ELSE {<<>>} :
         calculate_detection_efficiency(img, None, source_catalog, gridSize, found)

\* the same with the positions of the fakes given by the caller
CalculateDetectionEfficiencyAt ==
  /\ UNCHANGED env
  /\ \E img \in ImagesWithFakes :
       calculate_detection_efficiency(img, Some(Locs(1, 1)), Some(<<Det(1)>>),
                                      DefaultGridSize, <<>>)

\* plant_fakes, or diffim.add_psf, once the matcher has left a bare HDU in
\* self.diffim: the HDU has no attribute sci and no method add_psf
InjectOnHDU ==
  /\ ~diffim.isFitsImage
  /\ \E op \in InjectionOps : last' = [Call(op) EXCEPT !.raised = "AttributeError"]
  /\ UNCHANGED <<hdus, diffim, planter, env>>

\* the planters the matcher is run on: a new one, and one whose plant_fakes
\* has returned an image
InitMatch ==
  \/ Init
  \/ \E locations \in PlantLists :
       /\ plant_fakes(BaseHDU, E1, locations, None).raised = "none"
       /\ hdus = plant_fakes(BaseHDU, E1, locations, None).heap
       /\ diffim = FitsImage
       /\ planter = [has_fakes |-> TRUE, detection_efficiency |-> None,
                     detection_table |-> None, searchim |-> None,
                     templateim |-> None]
       /\ last = [Call("plant_fakes") EXCEPT !.epsf = E1, !.locations = locations]
       /\ env = NoFiles

NextMatch == CalculateDetectionEfficiency \/ CalculateDetectionEfficiencyAt \/ InjectOnHDU

SpecMatch == InitMatch /\ [][NextMatch]_vars

(********************** injections of many positions ***********************)
\* the lengths of the lists: the short ones, and those about _MAX_N_PLANTS_
CapLens == (1..NCapSmall) \cup (_MAX_N_PLANTS_..(_MAX_N_PLANTS_ + 2))

\* n positions of which the one of index 100 is in the last column and all
\* the others are the same pixel away from it
ManyLocs(n) == [i \in 1..n |-> IF i = 101 THEN <<ImgCols - 1, 1>> ELSE <<1, 1>>]

\* the first plant_fakes of a planter, on a list of n positions
PlantMany ==
  /\ diffim.isFitsImage
  /\ last.op = "__init__"
  /\ \E n \in CapLens : \E locations \in {Locs(1, n), ManyLocs(n)} :
       LET r == plant_fakes(hdus[diffim.hdu], E1, locations, None)
       IN /\ last' = [Call("plant_fakes") EXCEPT !.epsf = E1,
                       !.locations = locations, !.raised = r.raised]
          /\ hdus' = r.heap
          /\ planter' = [planter EXCEPT !.has_fakes = (r.raised = "none")]
          /\ UNCHANGED <<diffim, env>>

\* the matcher on the image that plant_fakes returned, with a catalog of one
\* detection in the last column
MatchMany ==
  /\ last.op = "plant_fakes" /\ last.raised = "none"
  /\ UNCHANGED env
  /\ calculate_detection_efficiency(BareHDU("cp"), None,
                                    Some(<< <<ImgCols - 1, 1>> >>),
                                    DefaultGridSize - 1, <<>>)

NextCap == PlantMany \/ MatchMany

SpecCap == Init /\ [][NextCap]_vars

(****************************** the PSF stars ******************************)
_PSFSTARCUTOUTSIZE_ == 25
BBoxSize == 25
DefaultSNthresh == 100
DefaultOversampling == 2

kNAXIS1 == <<"N", "A", "X", "I", "S", "1">>
kNAXIS2 == <<"N", "A", "X", "I", "S", "2">>
kL1MEAN == <<"L", "1", "M", "E", "A", "N">>
kL1MEDIAN == <<"L", "1", "M", "E", "D", "I", "A", "N">>
kL1SIGMA == <<"L", "1", "S", "I", "G", "M", "A">>
kL1FWHM == <<"L", "1", "F", "W", "H", "M">>
kWMSSKYBR == <<"W", "M", "S", "S", "K", "Y", "B", "R">>
kPIXSCALE == <<"P", "I", "X", "S", "C", "A", "L", "E">>
kSATURATE == <<"S", "A", "T", "U", "R", "A", "T", "E">>
kMAXLIN == <<"M", "A", "X", "L", "I", "N">>

\* a position x is kept as x2 = 2*x, so pixel centres and pixel edges (x.5)
\* are both integers; int((x2 + d)/2), which truncates toward zero
int_half(a) == IF a >= 0 THEN a \div 2 ELSE -((-a) \div 2)
\* int(np.ceil((x2 + d)/2))
ceil_half(a) == -((-a) \div 2)

\* photutils.BoundingBox, ixmax and iymax exclusive
BoundingBox(ixmin, ixmax, iymin, iymax) ==
  [ixmin |-> ixmin, ixmax |-> ixmax, iymin |-> iymin, iymax |-> iymax]

\* the box of a catalog row i (l.746-752), size = 25
bbox_of(i) ==
  BoundingBox(int_half(i.x2 - BBoxSize), int_half(i.x2 + BBoxSize),
              int_half(i.y2 - BBoxSize), int_half(i.y2 + BBoxSize))

\* obj1.intersection(obj2): none when the boxes are apart, else the common
\* box, which is empty when the boxes only touch
intersection(obj1, obj2) ==
  LET ixmin == Max(obj1.ixmin, obj2.ixmin)
      ixmax == Min(obj1.ixmax, obj2.ixmax)
      iymin == Max(obj1.iymin, obj2.iymin)
      iymax == Min(obj1.iymax, obj2.iymax)
  IN IF ixmax < ixmin \/ iymax < iymin THEN None
     ELSE Some(BoundingBox(ixmin, ixmax, iymin, iymax))

\* the boxes collected by the pairwise sweep (l.759-767, l.814-822)
intersections(bboxes) ==
  {bboxes[i] : i \in {i \in 1..Len(bboxes) :
                        \E j \in 1..Len(bboxes) :
                          j # i /\ intersection(bboxes[i], bboxes[j]).set}}

\* gaiacat.remove_rows(rows), rows the rows whose box is in intersections
remove_intersecting(rows) ==
  LET hit == intersections([i \in 1..Len(rows) |-> bbox_of(rows[i])])
      clear(i) == bbox_of(i) \notin hit
  IN SelectSeq(rows, clear)

\* `for i in tmp: if <i is in bad>: tmp.remove(i)`: the list iterator is at
\* index k (from 1) of the list as it is now; remove deletes the first element
\* equal to i and the elements behind it move one place up
RECURSIVE remove_in_loop(_, _, _)
remove_in_loop(tmp, bad, k) ==
  IF k > Len(tmp) THEN tmp
  ELSE IF tmp[k] \in bad
    THEN LET at == CHOOSE j \in 1..k : tmp[j] = tmp[k] /\ \A h \in 1..(j - 1) : tmp[h] # tmp[k]
         IN remove_in_loop(SubSeq(tmp, 1, at - 1) \o SubSeq(tmp, at + 1, Len(tmp)), bad, k + 1)
  ELSE remove_in_loop(tmp, bad, k + 1)

\* the pixel array of a star field is kept as one row: the peak pixel of
\* every catalog source (at the index of its id) and the sky pixels
data_shape == <<FrameRows, FrameCols>>

\* the median of sigma_clipped_stats(data, sigma=2.): the median pixel of the
\* sky-dominated row
sigma_clipped_median(data) ==
  LET row == data[1]
      half == (Len(row) - 1) \div 2
  IN CHOOSE v \in {row[i] : i \in 1..Len(row)} :
       /\ Cardinality({i \in 1..Len(row) : row[i] < v}) <= half
       /\ Cardinality({i \in 1..Len(row) : row[i] > v}) <= half

\* extract_stars(nddata, catalogs, size): a cutout of size x size pixels per
\* row, placed by overlap_slices(mode='strict'); a row whose cutout does not
\* lie inside the array gives no star
cutout_bbox(i, size) ==
  BoundingBox(ceil_half(i.x2 - size), ceil_half(i.x2 - size) + size,
              ceil_half(i.y2 - size), ceil_half(i.y2 - size) + size)
in_frame(bbox) ==
  /\ bbox.ixmin >= 0 /\ bbox.ixmax <= data_shape[2]
  /\ bbox.iymin >= 0 /\ bbox.iymax <= data_shape[1]
extract_stars(data, catalogs, size) ==
  LET whole(i) == in_frame(cutout_bbox(i, size))
      rows == SelectSeq(catalogs, whole)
  IN [n \in 1..Len(rows) |->
        [id |-> rows[n].id, bbox |-> cutout_bbox(rows[n], size),
         max |-> data[1][rows[n].id]]]

\* the second sweep (l.812-829): the stars whose cutout box is in
\* intersections are removed from tmp inside the loop over tmp
remove_overlapping(psfstars_extracted) ==
  remove_in_loop(psfstars_extracted,
    {i \in {psfstars_extracted[n] : n \in 1..Len(psfstars_extracted)} :
       i.bbox \in intersections([n \in 1..Len(psfstars_extracted) |->
                                  psfstars_extracted[n].bbox])}, 1)

\* l.833-837: the stars above saturate, or else above maxlin, are removed
\* from tmp inside the loop over tmp
remove_saturated(tmp, saturate, maxlin) ==
  remove_in_loop(tmp, {i \in {tmp[n] : n \in 1..Len(tmp)} :
                         i.max > saturate \/ i.max > maxlin}, 1)

\* data -= median_val
subtracted(data, median_val) ==
  [r \in 1..Len(data) |-> [c \in 1..Len(data[r]) |-> data[r][c] - median_val]]

\* l.807-856 for the catalog gaiacat left by the first sweep and the
\* background-subtracted pixels data; the catalog handed to extract_stars is
\* gaiacat, not gaiacat_trimmed (l.810)
select_psf_stars(img, hdu, gaiacat, gaiacat_trimmed, data) ==
  [raised |-> "none",
   img |-> [img EXCEPT
              !.gaia_source_table = Some(gaiacat),
              !.psfstars = Some(remove_saturated(
                 remove_overlapping(extract_stars(data, gaiacat.rows, _PSFSTARCUTOUTSIZE_)),
                 hdu.header.val[kSATURATE][2], hdu.header.val[kMAXLIN][2]))],
   hdu |-> [hdu EXCEPT !.data = data]]

\* gaiacat[gaiacat['signal_to_noise'] > SNthresh]
trimmed(gaiacat, SNthresh) ==
  LET above(i) == i.signal_to_noise > SNthresh
  IN [gaiacat EXCEPT !.rows = SelectSeq(gaiacat.rows, above)]

\* extract_psf_stars(SNthresh) on the image img with the HDU hdu: the image
\* and the HDU after the call, and the exception raised
extract_psf_stars(img, hdu, SNthresh) ==
  IF ~img.gaia_source_table.set
    THEN [raised |-> "AttributeError", img |-> img, hdu |-> hdu]
  ELSE IF img.gaia_source_table.v.bbox
    THEN \* add_column: the column bbox exists already (l.755)
         [raised |-> "ValueError", img |-> img, hdu |-> hdu]
  ELSE select_psf_stars(img, hdu,
         [rows |-> remove_intersecting(img.gaia_source_table.v.rows), bbox |-> TRUE],
         trimmed([rows |-> remove_intersecting(img.gaia_source_table.v.rows),
                  bbox |-> TRUE], SNthresh),
         subtracted(hdu.data, sigma_clipped_median(hdu.data)))

\* the table built from the sources a Gaia query returns (l.465-466)
gaia_table(sources) == [rows |-> sources, bbox |-> FALSE]

\* fetch_gaia_sources(save_suffix, overwrite) on the image img: the image and
\* the files after the call, and whether the Gaia database was queried
fetch_gaia_sources_always(img, files, save_suffix, overwrite) ==
  LET gaia_source_table == gaia_table(files.gaia)
  IN [img |-> [img EXCEPT !.gaia_source_table = Some(gaia_source_table)],
      env |-> IF Truthy(save_suffix)
                THEN [files EXCEPT !.ecsv = Some(gaia_source_table)] ELSE files,
      queried |-> TRUE]
fetch_gaia_sources(img, files, save_suffix, overwrite) ==
  IF Truthy(save_suffix) /\ files.ecsv.set /\ ~overwrite
    THEN \* read_gaia_sources(save_suffix)
         [img |-> [img EXCEPT !.gaia_source_table = files.ecsv],
          env |-> files, queried |-> FALSE]
  ELSE LET gaia_source_table == gaia_table(files.gaia)
       IN [img |-> [img EXCEPT !.gaia_source_table = Some(gaia_source_table)],
           env |-> IF Truthy(save_suffix)
                     THEN [files EXCEPT !.ecsv = Some(gaia_source_table)] ELSE files,
           queried |-> TRUE]

\* read_gaia_sources(save_suffix) on the image img next to the files files:
\* the image after the call, the exception raised and the value returned
read_gaia_sources(img, files, save_suffix) ==
  IF ~save_suffix.set
    THEN \* root + '_' + save_suffix with save_suffix None
         [img |-> img, raised |-> "TypeError", ret |-> <<>>]
  ELSE IF ~files.ecsv.set THEN [img |-> img, raised |-> "none", ret |-> IntV(-1)]
  ELSE [img |-> [img EXCEPT !.gaia_source_table = files.ecsv], raised |-> "none",
        ret |-> IntV(0)]

\* do_stellar_photometry(gaia_catalog) on the image img with the HDU hdu: a
\* row per source of magnitude 16 or fainter, with the counts of the source's
\* pixel as aperture_sum and the sky median of the annulus times the
\* aperture's area (one pixel) as aper_bkg
do_stellar_photometry(img, hdu, gaia_catalog) ==
  LET faint(i) == ~(i.mag < 16)
      positions == SelectSeq(gaia_catalog.rows, faint)
      bkg_median == sigma_clipped_median(hdu.data)
      phot == [n \in 1..Len(positions) |->
                 [xcenter2 |-> positions[n].x2, ycenter2 |-> positions[n].y2,
                  aper_bkg |-> bkg_median,
                  aper_sum_bkgsub |-> hdu.data[1][positions[n].id] - bkg_median]]
  IN IF Len(positions) = 0
       THEN \* CircularAperture refuses an empty list of positions
            [img |-> img, raised |-> "ValueError"]
     ELSE [img |-> [img EXCEPT !.stellar_phot_table = Some(phot)], raised |-> "none"]

\* dist.argmin(): the first catalog row nearest to the measured star
argmin_dist(star, cat) ==
  LET dist2(j) == (star.xcenter2 - cat[j].x2) * (star.xcenter2 - cat[j].x2)
                  + (star.ycenter2 - cat[j].y2) * (star.ycenter2 - cat[j].y2)
  IN CHOOSE j \in 1..Len(cat) :
       /\ \A k \in 1..Len(cat) : dist2(j) <= dist2(k)
       /\ \A k \in 1..(j - 1) : dist2(k) > dist2(j)

\* l.647-686 of measure_zeropoint: the zero point fitted to the stars with
\* positive flux and a flux above 20 times its error sqrt(aper_bkg), held as
\* the pairs (catalog magnitude, flux) whose values star_mag + 2.5 log10(flux)
\* the sigma-clipped median is taken of
zeropoint_fit(img) ==
  LET phot == img.stellar_phot_table.v
      cat == img.gaia_source_table.v.rows
      valid(star) == /\ star.aper_sum_bkgsub > 0
                     /\ star.aper_sum_bkgsub * star.aper_sum_bkgsub > 400 * star.aper_bkg
      ivalid == SelectSeq(phot, valid)
  IN IF Len(phot) > 0 /\ Len(cat) = 0
       THEN \* argmin of an empty sequence
            [img |-> img, raised |-> "ValueError", ret |-> <<>>]
     ELSE [img |-> [img EXCEPT !.zeropoint =
                      Some([n \in 1..Len(ivalid) |->
                              [star_mag |-> cat[argmin_dist(ivalid[n], cat)].mag,
                               star_flux |-> ivalid[n].aper_sum_bkgsub]])],
           raised |-> "none", ret |-> <<>>]

\* measure_zeropoint() on the image img: the image after the call, the
\* exception raised and the value returned
measure_zeropoint_unguarded(img) ==
  IF ~img.stellar_phot_table.set
    THEN [img |-> img, raised |-> "none", ret |-> IntV(-1)]
  ELSE IF ~img.gaia_source_table.set
    THEN [img |-> img, raised |-> "AttributeError", ret |-> <<>>]
  ELSE zeropoint_fit(img)
measure_zeropoint(img) ==
  IF ~img.stellar_phot_table.set
    THEN [img |-> img, raised |-> "none", ret |-> IntV(-1)]
  ELSE IF ~img.gaia_source_table.set
    THEN [img |-> img, raised |-> "none", ret |-> IntV(-1)]
  ELSE zeropoint_fit(img)

\* epsf_builder(self.psfstars): the model of the stars it was fitted to
EPSFBuilder(oversampling, psfstars) ==
  [stars |-> [n \in 1..Len(psfstars) |-> psfstars[n].id], oversampling |-> oversampling]

\* l.903-943 of build_epsf_model, ex the outcome of l.901-902
fit_epsf_model(ex, files, oversampling) ==
  IF ex.raised # "none"
    THEN [raised |-> ex.raised, img |-> ex.img, hdu |-> ex.hdu, env |-> files,
          fitted |-> FALSE]
  ELSE IF Len(ex.img.psfstars.v) = 0
    THEN \* the builder refuses an empty set of stars
         [raised |-> "ValueError", img |-> ex.img, hdu |-> ex.hdu, env |-> files,
          fitted |-> TRUE]
  ELSE LET fitted == [ex.img EXCEPT
                        !.epsf = Some(EPSFBuilder(oversampling, ex.img.psfstars.v)),
                        !.fitted_stars = Some(ex.img.psfstars.v)]
           zpt == IF fitted.zeropoint.set
                    THEN [img |-> fitted, raised |-> "none"]
                  ELSE measure_zeropoint(fitted)
       IN IF zpt.raised # "none"
            THEN [raised |-> zpt.raised, img |-> fitted, hdu |-> ex.hdu,
                  env |-> files, fitted |-> TRUE]
          ELSE
       [raised |-> "none",
        img |-> zpt.img,
        hdu |-> ex.hdu,
        env |-> [files EXCEPT !.pkl = Some(EPSFBuilder(oversampling, ex.img.psfstars.v))],
        fitted |-> TRUE]

\* l.901-902: extract_psf_stars() unless the image has PSF stars
stars_for_model(img, hdu) ==
  IF img.psfstars.set THEN [raised |-> "none", img |-> img, hdu |-> hdu]
  ELSE extract_psf_stars(img, hdu, DefaultSNthresh)

\* build_epsf_model(save_suffix=save_suffix, overwrite=overwrite) on the
\* image img with the HDU hdu: the image, the HDU and the files after the
\* call, the exception raised and whether the ePSF fit was run
build_epsf_model(img, hdu, files, save_suffix, overwrite) ==
  IF save_suffix.set /\ ~overwrite /\ files.pkl.set
    THEN \* load_epsfmodel_from_pickle(save_suffix)
         [raised |-> "none", img |-> [img EXCEPT !.epsf = files.pkl], hdu |-> hdu,
          env |-> files, fitted |-> FALSE]
  ELSE IF ~save_suffix.set
    THEN \* rootfilename + '_' + save_suffix with save_suffix None (l.895)
         [raised |-> "TypeError", img |-> img, hdu |-> hdu, env |-> files,
          fitted |-> FALSE]
  ELSE \* read_gaia_sources(save_suffix) when the catalog file exists
       fit_epsf_model(
         stars_for_model(IF files.ecsv.set
                           THEN [img EXCEPT !.gaia_source_table = files.ecsv]
                         ELSE img, hdu),
         files, DefaultOversampling)

\* the sources of the star fields, x2 = 2*x, all in the row y = 50: two whose
\* cutouts touch, a saturated one, one above the linear range next to one
\* that overlaps it, one at the S/N threshold, one below it, one at the edge;
\* the third is brighter than magnitude 16
StarCycle ==
  << [x2 |-> 40, signal_to_noise |-> 200, peak |-> 500, mag |-> 17],
     [x2 |-> 91, signal_to_noise |-> 200, peak |-> 500, mag |-> 17],
     [x2 |-> 200, signal_to_noise |-> 200, peak |-> 1200, mag |-> 15],
     [x2 |-> 280, signal_to_noise |-> 150, peak |-> 900, mag |-> 16],
     [x2 |-> 300, signal_to_noise |-> 200, peak |-> 500, mag |-> 17],
     [x2 |-> 400, signal_to_noise |-> DefaultSNthresh, peak |-> 500, mag |-> 18],
     [x2 |-> 480, signal_to_noise |-> 50, peak |-> 500, mag |-> 19],
     [x2 |-> 10, signal_to_noise |-> 200, peak |-> 500, mag |-> 17] >>
Star(i) == StarCycle[((i - 1) % Len(StarCycle)) + 1]

\* the n sources Gaia holds for the footprint of the field (start, n), with
\* the pixel position the WCS of the image gives them
Sources(start, n) ==
  [i \in 1..n |-> [id |-> i, x2 |-> Star(start + i - 1).x2, y2 |-> FrameRows,
                   signal_to_noise |-> Star(start + i - 1).signal_to_noise,
                   mag |-> Star(start + i - 1).mag]]

\* the image of the field: a sky level of 10 counts under every pixel
StarHeader ==
  LET h1 == HdrSet(BaseHeader, kNAXIS1, IntV(FrameCols))
      h2 == HdrSet(h1, kNAXIS2, IntV(FrameRows))
      h3 == HdrSet(h2, kL1MEAN, IntV(10))
      h4 == HdrSet(h3, kL1MEDIAN, IntV(10))
      h5 == HdrSet(h4, kL1SIGMA, IntV(1))
      h6 == HdrSet(h5, kL1FWHM, IntV(2))
      h7 == HdrSet(h6, kWMSSKYBR, IntV(20))
      h8 == HdrSet(h7, kPIXSCALE, IntV(1))
      h9 == HdrSet(h8, kSATURATE, IntV(1000))
  IN HdrSet(h9, kMAXLIN, IntV(800))
StarFieldHDU(start, n) ==
  [data |-> << [i \in 1..(2 * n + 1) |->
                  IF i <= n THEN Star(start + i - 1).peak + 10 ELSE 10] >>,
   header |-> StarHeader]

\* the files found next to the image: none, or those an earlier run saved
\* when Gaia held one source less for the footprint
SavedCatalogs(sources) ==
  {None, Some(gaia_table(sources)),
   Some(gaia_table(SubSeq(sources, 1, Len(sources) - 1)))}
SavedModels == {None, Some([stars |-> <<1>>, oversampling |-> DefaultOversampling])}

SaveSuffixes == {None, Some(<<"G", "a", "i", "a", "C", "a", "t">>)}
SNthreshs == {DefaultSNthresh, DefaultSNthresh + 50}

\* FitsImage.__init__ on the image of a star field
InitStars ==
  \E start \in 1..Len(StarCycle), n \in 1..MaxStars :
    /\ hdus = [r \in {"sci", "cp"} |-> IF r = "sci" THEN StarFieldHDU(start, n) ELSE NoHDU]
    /\ diffim = FitsImage
    /\ planter = [has_fakes |-> FALSE, detection_efficiency |-> None,
                  detection_table |-> None, searchim |-> None, templateim |-> None]
    /\ last = Call("__init__")
    /\ \E ecsv \in SavedCatalogs(Sources(start, n)), pkl \in SavedModels :
         env = [NoFiles EXCEPT !.ecsv = ecsv, !.pkl = pkl,
                                !.gaia = Sources(start, n)]

FetchGaiaSources ==
  \E save_suffix \in SaveSuffixes, overwrite \in BOOLEAN :
    LET r == fetch_gaia_sources(diffim, env, save_suffix, overwrite)
    IN /\ diffim' = r.img
       /\ env' = r.env
       /\ last' = [Call("fetch_gaia_sources") EXCEPT !.save_suffix = save_suffix,
                     !.overwrite = overwrite, !.queried = r.queried]
       /\ UNCHANGED <<hdus, planter>>

ExtractPsfStars ==
  \E SNthresh \in SNthreshs :
    LET r == extract_psf_stars(diffim, hdus[diffim.hdu], SNthresh)
    IN /\ diffim' = r.img
       /\ hdus' = [hdus EXCEPT ![diffim.hdu] = r.hdu]
       /\ last' = [Call("extract_psf_stars") EXCEPT !.SNthresh = SNthresh,
                     !.gaiacat = diffim.gaia_source_table, !.raised = r.raised]
       /\ UNCHANGED <<planter, env>>

BuildEpsfModel ==
  \E save_suffix \in SaveSuffixes, overwrite \in BOOLEAN :
    LET r == build_epsf_model(diffim, hdus[diffim.hdu], env, save_suffix, overwrite)
    IN /\ diffim' = r.img
       /\ hdus' = [hdus EXCEPT ![diffim.hdu] = r.hdu]
       /\ env' = r.env
       /\ last' = [Call("build_epsf_model") EXCEPT !.save_suffix = save_suffix,
                     !.overwrite = overwrite, !.raised = r.raised,
                     !.fitted = r.fitted]
       /\ UNCHANGED planter

NextStars == FetchGaiaSources \/ ExtractPsfStars \/ BuildEpsfModel

SpecStars == InitStars /\ [][NextStars]_vars

\* the catalog handed to do_stellar_photometry: the one the image holds, or
\* the one the caller fetched from Gaia
GaiaCatalogs ==
  {gaia_table(env.gaia)}
  \cup (IF diffim.gaia_source_table.set THEN {diffim.gaia_source_table.v} ELSE {})

ReadGaiaSources ==
  \E save_suffix \in SaveSuffixes :
    LET r == read_gaia_sources(diffim, env, save_suffix)
    IN /\ diffim' = r.img
       /\ last' = [Call("read_gaia_sources") EXCEPT !.save_suffix = save_suffix,
                     !.raised = r.raised, !.ret = r.ret]
       /\ UNCHANGED <<hdus, planter, env>>

DoStellarPhotometry ==
  \E gaia_catalog \in GaiaCatalogs :
    LET r == do_stellar_photometry(diffim, hdus[diffim.hdu], gaia_catalog)
    IN /\ diffim' = r.img
       /\ last' = [Call("do_stellar_photometry") EXCEPT !.gaiacat = Some(gaia_catalog),
                     !.raised = r.raised]
       /\ UNCHANGED <<hdus, planter, env>>

MeasureZeropoint ==
  LET r == measure_zeropoint(diffim)
  IN /\ diffim' = r.img
     /\ last' = [Call("measure_zeropoint") EXCEPT !.raised = r.raised, !.ret = r.ret]
     /\ UNCHANGED <<hdus, planter, env>>

NextZpt == FetchGaiaSources \/ ReadGaiaSources \/ DoStellarPhotometry \/ MeasureZeropoint

SpecZpt == InitStars /\ [][NextZpt]_vars

(*************************** the lensed locations ***************************)
\* the flux of a lensed position when no fluxes are given
DefaultFlux == 10000

\* FitsImage(filename) for the search or the template image: the transform
\* read_fits_file takes from the header; hostgalaxies and lensed_locations
\* are attributes the image gets later
TripletImage(header, hostgalaxies) ==
  [wcs |-> WCS(header), hostgalaxies |-> hostgalaxies, lensed_locations |-> None]

\* Table(data=[xs, ys, fluxes], names=["x_fit", "y_fit", "flux_fit"]) for the
\* positions at the offsets (phis[i], ds[i]) from the pixel (x, y)
lensed_table(x, y, orientation, phis, ds, fluxes) ==
  [isTable |-> TRUE, colnames |-> ColNames,
   rows |-> [i \in 1..Len(phis) |->
               [x_fit |-> x + ds[i] * cosd(orientation + phis[i]),
                y_fit |-> y + ds[i] * sind(orientation + phis[i]),
                flux_fit |-> fluxes[i]]]]

\* the list get_lensed_locations returns
returned_tables_template_first(posflux, posflux_search, posflux_diff) ==
  <<posflux, posflux_search, posflux_diff>>
returned_tables(posflux, posflux_search, posflux_diff) ==
  <<posflux_diff, posflux_search, posflux>>

\* the three tables for the host galaxy hostgalaxy of the template
lensed_tables(hostgalaxy, template_wcs, search_wcs, diff_wcs, phis, ds, fluxes) ==
  LET x == hostgalaxy.xcentroid
      y == hostgalaxy.ycentroid
      sky == pixel_to_skycoord(x, y, template_wcs)
      search_location == skycoord_to_pixel(sky, search_wcs)
      diff_location == skycoord_to_pixel(sky, diff_wcs)
      orientation == hostgalaxy.orientation
  IN [posflux |-> lensed_table(x, y, orientation, phis, ds, fluxes),
      posflux_search |-> lensed_table(search_location[1], search_location[2],
                                      orientation, phis, ds, fluxes),
      posflux_diff |-> lensed_table(diff_location[1], diff_location[2],
                                    orientation, phis, ds, fluxes)]

\* get_lensed_locations(phis, ds, fluxes) on a planter with the images
\* templateim and searchim and a difference image of transform diff_wcs: the
\* exception raised, the three tables and the list returned
get_lensed_locations(templateim, searchim, diff_wcs, phis, ds, fluxes) ==
  LET failed(exc) == [raised |-> exc, tables |-> <<>>, ret |-> <<>>]
      fl == IF ~Truthy(fluxes) THEN [i \in 1..Len(phis) |-> DefaultFlux] ELSE fluxes.v
  IN IF ~templateim.set \/ ~templateim.v.hostgalaxies.set THEN failed("AttributeError")
     ELSE IF templateim.v.hostgalaxies.v = <<>> THEN failed("IndexError")
     ELSE IF ~searchim.set THEN failed("AttributeError")
     ELSE IF Len(ds) < Len(phis) THEN failed("IndexError")
     ELSE IF Len(fl) # Len(phis) THEN failed("ValueError")
     ELSE LET t == lensed_tables(templateim.v.hostgalaxies.v[1], templateim.v.wcs,
                                 searchim.v.wcs, diff_wcs, phis, ds, fl)
          IN [raised |-> "none", tables |-> t,
              ret |-> returned_tables(t.posflux, t.posflux_search, t.posflux_diff)]

\* the headers of the frames of a triplet: the frame of the base image, one
\* shifted against it, and one turned by 90 degrees
ShiftedHeader == HdrSet(HdrSet(BaseHeader, kCRVAL1, IntV(12)), kCRVAL2, IntV(23))
TurnedHeader == HdrSet(BaseHeader, kCROTA2, IntV(90))
FrameHeaders == {BaseHeader, ShiftedHeader, TurnedHeader}

\* a source of the template with its centroid, its axes and its orientation
HostGalaxy(orientation) ==
  [xcentroid |-> 5, ycentroid |-> 7, semimajor_axis_sigma |-> 3,
   semiminor_axis_sigma |-> 2, orientation |-> orientation]

\* templateim.hostgalaxies: not set, empty, or holding one galaxy
HostGalaxyLists == {None, Some(<<>>), Some(<<HostGalaxy(0)>>), Some(<<HostGalaxy(90)>>)}

\* the offsets (phi, d) of a call, taken in turn from a cycle
OffsetCycle == << <<90, 2>>, <<-90, 1>> >>
Offset(i) == OffsetCycle[((i - 1) % Len(OffsetCycle)) + 1]
Phis(start, n) == [i \in 1..n |-> Offset(start + i - 1)[1]]
Ds(start, n) == [i \in 1..n |-> Offset(start + i - 1)[2]]

\* fluxes of a call on n offsets: none, one per offset, one too many
FluxesFor(n) == {None, Some([i \in 1..n |-> 100 * i]), Some([i \in 1..(n + 1) |-> 100 * i])}

\* FakePlanter.__init__ on a difference image alone, or with the file names
\* of a search image and of a template image as well
InitLens ==
  /\ \E header \in FrameHeaders :
       hdus = [r \in {"sci", "cp"} |->
                 IF r = "sci" THEN [data |-> BaseData, header |-> header] ELSE NoHDU]
  /\ diffim = FitsImage
  /\ \E searchim \in {None} \cup {Some(TripletImage(h, None)) : h \in FrameHeaders},
        templateim \in {None} \cup {Some(TripletImage(h, g)) :
                                      h \in FrameHeaders, g \in HostGalaxyLists} :
       planter = [has_fakes |-> FALSE, detection_efficiency |-> None,
                  detection_table |-> None, searchim |-> searchim,
                  templateim |-> templateim]
  /\ last = Call("__init__")
  /\ env = NoFiles

GetLensedLocations ==
  /\ diffim.isFitsImage
  /\ \E start \in 1..Len(OffsetCycle), n \in 0..MaxOffsets, m \in 0..MaxOffsets :
       \E fluxes \in FluxesFor(n) :
         LET phis == Phis(start, n)
             ds == Ds(start, m)
             r == get_lensed_locations(planter.templateim, planter.searchim,
                                       WCS(hdus[diffim.hdu].header), phis, ds, fluxes)
             call == [Call("get_lensed_locations") EXCEPT !.phis = phis, !.ds = ds,
                        !.fluxes = fluxes, !.raised = r.raised, !.ret = r.ret]
         IN /\ m \in {n - 1, n}
            /\ last' = call
            /\ UNCHANGED <<hdus, env>>
            /\ IF r.raised # "none" THEN UNCHANGED <<diffim, planter>>
               ELSE /\ diffim' = [diffim EXCEPT
                                    !.lensed_locations = Some(r.tables.posflux_diff)]
                    /\ planter' = [planter EXCEPT
                         !.templateim = Some([@.v EXCEPT
                             !.lensed_locations = Some(r.tables.posflux)]),
                         !.searchim = Some([@.v EXCEPT
                             !.lensed_locations = Some(r.tables.posflux_search)])]

NextLens == GetLensedLocations

SpecLens == InitLens /\ [][NextLens]_vars

(************************* the fake source catalog *************************)
\* int(i[2:5]): the number a string of digits denotes; anything else makes
\* int raise ValueError
IsInt(s) == s # <<>> /\ \A i \in 1..Len(s) : \E d \in 1..Len(Digits) : s[i] = Digits[d]
RECURSIVE int(_)
int(s) ==
  LET d == CHOOSE v \in 0..9 : Digits[v + 1] = s[Len(s)]
  IN IF Len(s) = 1 THEN d ELSE 10 * int(SubSeq(s, 1, Len(s) - 1)) + d

\* the cards write_to_catalog reads for a fake, in the order it reads them
CatalogCards == <<fRA, fDEC, fSCA, fMOD, fMOD, fX, fY>>

\* the loop of write_to_catalog over the keys of the primary header: the
\* fakes seen so far, the rows (ra, dec, sca, F, mod, x, y) collected for them
\* and the exception that ended the loop, if any
RECURSIVE CatalogLoop(_, _, _)
CatalogLoop(st, file_header, i) ==
  IF i > Len(file_header.keys) \/ st.raised # "none" THEN st
  ELSE LET key == file_header.keys[i]
           N == Slice(key, 2, 5)
           card(c) == FK(N, CatalogCards[c])
       IN IF Slice(key, 0, 2) # <<"F", "K">> THEN CatalogLoop(st, file_header, i + 1)
          ELSE IF ~IsInt(N) THEN [st EXCEPT !.raised = "ValueError"]
          ELSE IF \E f \in 1..Len(st.fakes) : st.fakes[f] = int(N)
            THEN CatalogLoop(st, file_header, i + 1)
          ELSE IF \E c \in 1..Len(CatalogCards) : ~HdrHas(file_header, card(c))
            THEN [st EXCEPT !.raised = "KeyError"]
          ELSE CatalogLoop(
                 [st EXCEPT !.fakes = Append(@, int(N)),
                            !.rows = Append(@, [ra |-> file_header.val[card(1)],
                                                dec |-> file_header.val[card(2)],
                                                sca |-> file_header.val[card(3)],
                                                F |-> file_header.val[card(4)],
                                                mod |-> file_header.val[card(5)],
                                                x |-> file_header.val[card(6)],
                                                y |-> file_header.val[card(7)]])],
                 file_header, i + 1)

\* read_fakesn_catalog of the image img, next to the files files (fsncat is
\* <root>_fakecat.ecsv, addto is the file the caller names): the image when it
\* ends and the exception that ended it, if any
read_fakesn_catalog(img, files, save_suffix, filename) ==
  IF filename.set
    THEN IF ~save_suffix.set THEN [img |-> img, raised |-> "TypeError"]
         ELSE IF ~files.fsncat.set THEN [img |-> img, raised |-> "FileNotFoundError"]
         ELSE [img |-> [img EXCEPT !.fakesncat = files.fsncat], raised |-> "none"]
  \* readname = None: Table.read has no file to read
  ELSE [img |-> img, raised |-> "ReadError"]

\* the default save_suffix of write_to_catalog and read_fakesn_catalog
FakeCat == Some(<<"f", "a", "k", "e", "c", "a", "t">>)

\* write_to_catalog of the image img with the primary header file_header: the
\* image and the files when it ends, and the exception that ended it, if any
write_to_catalog(img, file_header, files, save_suffix, overwrite, add_to_filename) ==
  LET savename == save_suffix.set /\ ~(files.fsncat.set /\ ~overwrite)
      st == CatalogLoop([fakes |-> <<>>, rows |-> <<>>, raised |-> "none"],
                        file_header, 1)
      rd == read_fakesn_catalog(img, files, FakeCat, add_to_filename)
  IN IF st.raised # "none" THEN [img |-> img, env |-> files, raised |-> st.raised]
     ELSE IF savename
       THEN [img |-> [img EXCEPT !.fakesncat = Some(st.rows)],
             env |-> [files EXCEPT !.fsncat = Some(st.rows)], raised |-> "none"]
     ELSE IF add_to_filename.set
       THEN IF files.addto.set
              THEN IF rd.raised # "none"
                     THEN [img |-> img, env |-> files, raised |-> rd.raised]
                   ELSE [img |-> rd.img,
                         env |-> [files EXCEPT
                                    !.addto = Some(rd.img.fakesncat.v \o st.rows)],
                         raised |-> "none"]
            ELSE [img |-> [img EXCEPT !.fakesncat = Some(st.rows)],
                  env |-> [files EXCEPT !.addto = Some(st.rows)], raised |-> "none"]
     ELSE [img |-> img, env |-> files, raised |-> "none"]

\* the images with fakes that a catalog is written for: the files that
\* plant_fakes and add_psf wrote
FakeFiles ==
  {plant_fakes(BaseHDU, E1, Locs(s, n), None).heap["cp"] :
     s \in 1..2, n \in 0..MaxLocs}
  \cup {add_psf(BaseHDU, PsfModel,
                [isTable |-> FALSE, colnames |-> {}, rows |-> Rows(1, 1)],
                None).heap["cp"]}

\* the catalogs found on disk: the rows of this image written earlier, and the
\* rows some other image contributed to the shared catalog
CatalogOf(hdu) ==
  CatalogLoop([fakes |-> <<>>, rows |-> <<>>, raised |-> "none"], hdu.header, 1).rows
OtherRows == CatalogOf(plant_fakes(BaseHDU, E1, << <<2, 2>> >>, None).heap["cp"])
AddToNames == {None, Some(<<"a", "l", "l", ".", "e", "c", "s", "v">>)}
FakeSuffixes == {None, FakeCat}

\* FitsImage.__init__ on an image with fakes
InitCat ==
  /\ \E file \in FakeFiles : hdus = [r \in {"sci", "cp"} |->
                                       IF r = "sci" THEN file ELSE NoHDU]
  /\ diffim = FitsImage
  /\ planter = [has_fakes |-> FALSE, detection_efficiency |-> None,
                detection_table |-> None, searchim |-> None, templateim |-> None]
  /\ last = Call("__init__")
  /\ \E fsncat \in {None, Some(<<>>)}, addto \in {None, Some(OtherRows)} :
       env = [NoFiles EXCEPT !.fsncat = fsncat, !.addto = addto]

WriteToCatalog ==
  \E save_suffix \in FakeSuffixes, overwrite \in BOOLEAN, add_to_filename \in AddToNames :
    LET r == write_to_catalog(diffim, hdus[diffim.hdu].header, env, save_suffix,
                              overwrite, add_to_filename)
    IN /\ diffim' = r.img
       /\ env' = r.env
       /\ last' = [Call("write_to_catalog") EXCEPT !.save_suffix = save_suffix,
                     !.overwrite = overwrite, !.add_to_filename = add_to_filename,
                     !.raised = r.raised]
       /\ UNCHANGED <<hdus, planter>>

ReadFakesnCatalog ==
  \E save_suffix \in FakeSuffixes, filename \in AddToNames :
    LET r == read_fakesn_catalog(diffim, env, save_suffix, filename)
    IN /\ diffim' = r.img
       /\ last' = [Call("read_fakesn_catalog") EXCEPT !.save_suffix = save_suffix,
                     !.filename = filename, !.raised = r.raised]
       /\ UNCHANGED <<hdus, planter, env>>

NextCat == WriteToCatalog \/ ReadFakesnCatalog

SpecCat == InitCat /\ [][NextCat]_vars

(******************************** properties *******************************)
\* the last call was an injection and it returned
Injected == last.op \in InjectionOps /\ last.raised = "none"

\* the number of positions handed to the injection
NInjected == IF last.op = "plant_fakes" THEN Len(last.locations)
             ELSE Len(last.posflux.rows)

\* C1: an injection (plant_fakes, add_psf) that returns leaves every pixel of
\* the original image diffim.sci as it was before the call
C1_PixelsOfOriginalKept ==
  [][(last'.op \in InjectionOps /\ last'.raised = "none")
       => hdus'["sci"].data = hdus["sci"].data]_vars

\* an injection returned a copy whose pixels differ from the original's
C1_Witness == Injected /\ hdus["cp"].data # hdus["sci"].data

\* C2: an injection that returns leaves the header of the original image as it
\* was before the call: no FK, fakeSN, N_fake or F_epsf card is added to it
C2_HeaderOfOriginalKept ==
  [][(last'.op \in InjectionOps /\ last'.raised = "none")
       => hdus'["sci"].header = hdus["sci"].header]_vars

\* an injection returned a copy that holds provenance cards the original lacks
C2_Witness ==
  /\ Injected /\ NInjected > 0
  /\ HdrHas(hdus["cp"].header, kFAKESN) /\ ~HdrHas(hdus["sci"].header, kFAKESN)
  /\ HdrHas(hdus["cp"].header, FK(zfill(str(0), 3), fX))
  /\ ~HdrHas(hdus["sci"].header, FK(zfill(str(0), 3), fX))

\* the header of the image the last injection returned
Returned == hdus["cp"].header

DigitSet == {Digits[i] : i \in 1..Len(Digits)}

\* the digits of a key from its position i on
RECURSIVE DigitsFrom(_, _)
DigitsFrom(key, i) ==
  IF i > Len(key) \/ key[i] \notin DigitSet THEN <<>>
  ELSE <<key[i]>> \o DigitsFrom(key, i + 1)

\* the indices of the FK groups of a header: the digits that follow "FK"
FKGroups(header) ==
  {DigitsFrom(header.keys[j], 3) :
     j \in {i \in 1..Len(header.keys) :
              /\ Len(header.keys[i]) > 2
              /\ SubSeq(header.keys[i], 1, 2) = <<"F", "K">>
              /\ DigitsFrom(header.keys[i], 3) # <<>>}}

\* the index of the i-th fake of an injection, as the code writes it
Idx(i) == zfill(str(i), 3)

\* C3: the image returned by an injection of N positions has N_fake = N,
\* fakeSN true, and FK groups with exactly the indices 0..N-1
C3_InjectionAccounting ==
  Injected =>
    /\ HdrHas(Returned, kN_FAKE) /\ Returned.val[kN_FAKE] = StrV(str(NInjected))
    /\ HdrHas(Returned, kFAKESN) /\ Returned.val[kFAKESN] = BoolV(TRUE)
    /\ FKGroups(Returned) = {Idx(i) : i \in 0..(NInjected - 1)}

\* the scale factor plant_fakes is asked to give the i-th position
ScaleOf(i) == IF Truthy(last.SCA) THEN last.SCA.v[i] ELSE 1

\* C4: reading the image returned by plant_fakes back with get_fake_locations
\* gives one entry per injected position, in injection order and with its
\* (x, y), and the card FK<i>SCA holds the scale factor of position i
C4_RoundTrip ==
  (last.op = "plant_fakes" /\ last.raised = "none") =>
    /\ get_fake_locations(Returned).raised = "none"
    /\ get_fake_locations(Returned).fake_positions = last.locations
    /\ \A i \in 1..Len(last.locations) :
         /\ HdrHas(Returned, FK(Idx(i - 1), fSCA))
         /\ Returned.val[FK(Idx(i - 1), fSCA)] = IntV(ScaleOf(i))

\* C5: the image returned by an injection holds, for every injected index i,
\* the seven cards FK<i>X, Y, RA, DEC, SCA, F and MOD
C5_CompleteGroups ==
  Injected =>
    \A i \in 0..(NInjected - 1) : \A field \in FakeFields :
      HdrHas(Returned, FK(Idx(i), field))

\* C6: an injection puts at most _MAX_N_PLANTS_ fakes into an image, every
\* identifier it writes and every identifier read back has three digits, and
\* no two fakes are read back under the same identifier
C6_FakeCountCap ==
  (last.op = "plant_fakes" /\ last.raised = "none") =>
    LET fakeIDs == get_fake_locations(Returned).fakeIDs
    IN /\ Len(last.locations) <= _MAX_N_PLANTS_
       /\ Len(fakeIDs) <= _MAX_N_PLANTS_
       /\ \A i \in 0..(Len(last.locations) - 1) : Len(Idx(i)) = Len(str(_MAX_N_PLANTS_))
       /\ \A i \in 1..Len(fakeIDs) : Len(fakeIDs[i]) = Len(str(_MAX_N_PLANTS_))
       /\ Cardinality({fakeIDs[i] : i \in 1..Len(fakeIDs)}) = Len(fakeIDs)

\* the last call was the matcher and it returned
Matched == last.op = "calculate_detection_efficiency" /\ last.raised = "none"

\* what it returned
Efficiency == planter.detection_efficiency.v
DetectionTable == planter.detection_table.v

\* C7: the efficiency that calculate_detection_efficiency returns (and the
\* planter keeps) is a ratio in the closed interval [0, 1]
C7_EfficiencyRange ==
  /\ planter.detection_efficiency.set =>
       (Efficiency[2] > 0 /\ 0 <= Efficiency[1] /\ Efficiency[1] <= Efficiency[2])
  /\ Matched => planter.detection_efficiency.set

\* the matcher returned after crediting two detections to the same fake
C7_Witness ==
  Matched /\ Efficiency[1] > 0 /\ Len(last.truths) > Efficiency[1]

\* every fake of the table has a detection exactly at its position
AllCoincide ==
  \A n \in 1..Len(DetectionTable) : \E k \in 1..Len(last.tbl_pixels) :
    last.tbl_pixels[k] = <<DetectionTable[n].pixX, DetectionTable[n].pixY>>

\* C8: when the catalog holds, for every fake, a detection exactly at the
\* fake's position, the matcher returns efficiency 1.0 and every flag is 1
C8_FullRecovery ==
  (Matched /\ AllCoincide) =>
    /\ Efficiency[1] = Efficiency[2]
    /\ \A n \in 1..Len(DetectionTable) : DetectionTable[n].detected = 1

\* C9: with fakes in the header and an empty detection catalog the matcher
\* returns efficiency 0.0 and a table in which every detected flag is 0
C9_EmptyCatalog ==
  (Matched /\ last.tbl_pixels = <<>>) =>
    /\ Len(DetectionTable) > 0
    /\ Efficiency[1] = 0
    /\ \A n \in 1..Len(DetectionTable) : DetectionTable[n].detected = 0

\* the matcher returned for an empty catalog and a header that holds fakes
C9_Witness ==
  /\ Matched /\ last.tbl_pixels = <<>>
  /\ get_fake_locations(hdus[diffim.hdu].header).fakeIDs # <<>>
  /\ Len(DetectionTable) = Len(get_fake_locations(hdus[diffim.hdu].header).fakeIDs)

\* the offsets of the k-th detection from the n-th fake of the table
OffX(k, n) == Abs(last.tbl_pixels[k][1] - DetectionTable[n].pixX)
OffY(k, n) == Abs(last.tbl_pixels[k][2] - DetectionTable[n].pixY)

\* the k-th detection was matched to the n-th fake
MatchedTo(k, n) ==
  \E t \in 1..Len(last.truths) :
    last.truths[t] = <<<<DetectionTable[n].pixX, DetectionTable[n].pixY>>,
                       last.tbl_pixels[k]>>

DisjointWindows ==
  \A n, m \in 1..Len(DetectionTable) :
    n # m => \/ Abs(DetectionTable[n].pixX - DetectionTable[m].pixX) >= 2 * last.gridSize
             \/ Abs(DetectionTable[n].pixY - DetectionTable[m].pixY) >= 2 * last.gridSize

\* the fakes of the table that have a detection inside their window
Recovered ==
  {n \in 1..Len(DetectionTable) :
     \E k \in 1..Len(last.tbl_pixels) :
       OffX(k, n) < last.gridSize /\ OffY(k, n) < last.gridSize}

\* C11: for N fakes with pairwise disjoint windows of which exactly k have a
\* detection inside their window the matcher returns the efficiency k/N,
\* however many detections lie in each window
C11_EfficiencyValue ==
  (Matched /\ DisjointWindows) =>
    Efficiency = <<Cardinality(Recovered), Len(DetectionTable)>>

\* the matcher returned for fakes with disjoint windows, one of them recovered
\* by two detections and one not recovered
C11_Witness ==
  /\ Matched /\ DisjointWindows
  /\ Len(DetectionTable) > 1
  /\ Recovered # {} /\ Cardinality(Recovered) < Len(DetectionTable)
  /\ Len(last.truths) > Cardinality(Recovered)

\* C12: the matcher credits each fake with at most one detection: no two
\* entries of truths name the same fake
C12_OneDetectionPerFake ==
  Matched =>
    \A t, u \in 1..Len(last.truths) : t # u => last.truths[t][1] # last.truths[u][1]

\* the header of the image that owns the fakes, once the matcher returned
OwnerHeader == hdus[diffim.hdu].header

\* C13: after the matcher returned, the header of the image that owns the
\* fakes holds for every row of the detection table the card FK<id>DET with
\* the row's detected value
C13_DetectedWriteBack ==
  Matched =>
    \A n \in 1..Len(DetectionTable) :
      /\ HdrHas(OwnerHeader, FK(DetectionTable[n].fakeID, fDET))
      /\ OwnerHeader.val[FK(DetectionTable[n].fakeID, fDET)] = IntV(DetectionTable[n].detected)

\* the matcher returned a table with a detected and an undetected fake
C13_Witness ==
  /\ Matched
  /\ \E n, m \in 1..Len(DetectionTable) :
       /\ DetectionTable[n].detected = 1 /\ DetectionTable[m].detected = 0
       /\ OwnerHeader.val[FK(DetectionTable[n].fakeID, fDET)] = IntV(1)
       /\ OwnerHeader.val[FK(DetectionTable[m].fakeID, fDET)] = IntV(0)

\* the last call was extract_psf_stars and it returned
Extracted == last.op = "extract_psf_stars" /\ last.raised = "none"

\* the rows of the catalog the call started from, and the row of an id
CatalogRows == last.gaiacat.v.rows
RowOf(id) == CHOOSE i \in {CatalogRows[n] : n \in 1..Len(CatalogRows)} : i.id = id

\* the ids of the stars in the selected PSF star set
PsfStarIds == {diffim.psfstars.v[n].id : n \in 1..Len(diffim.psfstars.v)}

\* the boxes of two rows intersect, as the code tests it
BoxesIntersect(i, j) == intersection(bbox_of(i), bbox_of(j)).set

\* the rows whose box intersects the box of no other row
Isolated ==
  {i \in {CatalogRows[n] : n \in 1..Len(CatalogRows)} :
     \A m \in 1..Len(CatalogRows) :
       CatalogRows[m].id # i.id => ~BoxesIntersect(i, CatalogRows[m])}

\* the cutouts of two isolated rows intersect
CutoutsIntersect(i, j) ==
  intersection(cutout_bbox(i, _PSFSTARCUTOUTSIZE_),
               cutout_bbox(j, _PSFSTARCUTOUTSIZE_)).set

\* the isolated rows that get a cutout, the frame holding all of it
Cut == {i \in Isolated : in_frame(cutout_bbox(i, _PSFSTARCUTOUTSIZE_))}

\* the peak pixel of the (background-subtracted) cutout of a star
PeakOf(id) == hdus[diffim.hdu].data[1][id]
Saturate == hdus[diffim.hdu].header.val[kSATURATE][2]
MaxLin == hdus[diffim.hdu].header.val[kMAXLIN][2]

\* C14: after extract_psf_stars no star of a pair whose boxes (of the catalog,
\* or of the cutouts) intersect is in the PSF star set, and every star whose
\* boxes intersect no other, and which passes the S/N and the saturation
\* checks, is in it
C14_OverlapFiltering ==
  Extracted =>
    /\ \A n, m \in 1..Len(CatalogRows) :
         (n # m /\ BoxesIntersect(CatalogRows[n], CatalogRows[m]))
           => (CatalogRows[n].id \notin PsfStarIds /\ CatalogRows[m].id \notin PsfStarIds)
    /\ \A i, j \in Cut :
         (i # j /\ CutoutsIntersect(i, j))
           => (i.id \notin PsfStarIds /\ j.id \notin PsfStarIds)
    /\ \A i \in Cut :
         ( /\ \A j \in Cut : j # i => ~CutoutsIntersect(i, j)
           /\ i.signal_to_noise > last.SNthresh
           /\ PeakOf(i.id) <= Saturate /\ PeakOf(i.id) <= MaxLin )
           => i.id \in PsfStarIds

\* C15: every star of the PSF star set extract_psf_stars(SNthresh) produces
\* has a signal-to-noise strictly greater than SNthresh
C15_SNRestriction ==
  Extracted => \A id \in PsfStarIds : RowOf(id).signal_to_noise > last.SNthresh

\* C16: no star of the PSF star set extract_psf_stars produces has a peak
\* pixel above the SATURATE level or above the MAXLIN level of the header
C16_SaturationFiltering ==
  Extracted => \A id \in PsfStarIds : PeakOf(id) <= Saturate /\ PeakOf(id) <= MaxLin

\* C20: with a save suffix, an existing cache file and overwrite False,
\* fetch_gaia_sources issues no Gaia query and build_epsf_model runs no fit:
\* each loads what the file holds and leaves the files alone; with overwrite
\* True a call that returns has queried (fitted) anew and the file holds the
\* new result
C20_CacheShortCircuit ==
  [][ /\ ( /\ last'.op = "fetch_gaia_sources"
           /\ Truthy(last'.save_suffix) /\ env.ecsv.set /\ ~last'.overwrite )
           => ( /\ ~last'.queried
                /\ diffim'.gaia_source_table = env.ecsv
                /\ env' = env )
      /\ ( /\ last'.op = "build_epsf_model"
           /\ Truthy(last'.save_suffix) /\ env.pkl.set /\ ~last'.overwrite )
           => ( /\ ~last'.fitted /\ last'.raised = "none"
                /\ diffim'.epsf = env.pkl
                /\ env' = env )
      /\ ( /\ last'.op = "fetch_gaia_sources"
           /\ Truthy(last'.save_suffix) /\ last'.overwrite )
           => ( /\ last'.queried
                /\ diffim'.gaia_source_table = Some(gaia_table(env.gaia))
                /\ env'.ecsv = diffim'.gaia_source_table )
      /\ ( /\ last'.op = "build_epsf_model" /\ last'.raised = "none"
           /\ Truthy(last'.save_suffix) /\ last'.overwrite )
           => ( /\ last'.fitted
                /\ diffim'.epsf.set
                /\ env'.pkl = diffim'.epsf )
    ]_vars

\* build_epsf_model loaded the saved model without a fit, on an image whose
\* catalog is the saved one, which differs from what a Gaia query returns
C20_Witness ==
  /\ last.op = "build_epsf_model" /\ last.raised = "none"
  /\ Truthy(last.save_suffix) /\ ~last.overwrite /\ ~last.fitted
  /\ diffim.epsf.set /\ diffim.epsf = env.pkl
  /\ env.ecsv.set /\ diffim.gaia_source_table = env.ecsv
  /\ env.ecsv.v # gaia_table(env.gaia)

\* the table handed to the last add_psf lacks x_fit, y_fit or flux_fit
LacksColumn(posflux) ==
  posflux.isTable /\ \E c \in {"x_fit", "y_fit", "flux_fit"} : c \notin posflux.colnames

\* C19: add_psf, given a table lacking x_fit, y_fit or flux_fit or an image
\* whose pixel array is not 2-D, raises ValueError, and the pixel data and
\* header of the image, its plants and its has_fakes are as before the call
C19_FailFastValidation ==
  [][ ( /\ last'.op = "add_psf"
        /\ LacksColumn(last'.posflux) \/ ndim(hdus[diffim.hdu].data) # 2 )
        => ( /\ last'.raised = "ValueError"
             /\ hdus'[diffim.hdu].data = hdus[diffim.hdu].data
             /\ hdus'[diffim.hdu].header = hdus[diffim.hdu].header
             /\ diffim'.plants = diffim.plants
             /\ diffim'.has_fakes = diffim.has_fakes )
    ]_vars

\* add_psf raised ValueError on a table lacking a column, on an image that
\* holds the plants of an earlier add_psf
C19_Witness ==
  /\ last.op = "add_psf" /\ last.raised = "ValueError"
  /\ LacksColumn(last.posflux)
  /\ diffim.plants.set /\ diffim.plants.v # last.posflux.rows
  /\ diffim.has_fakes = Some(TRUE)

\* add_psf raised ValueError on an image whose pixel array is one-dimensional
C19_WitnessNot2D ==
  /\ last.op = "add_psf" /\ last.raised = "ValueError"
  /\ ~LacksColumn(last.posflux)
  /\ ndim(hdus[diffim.hdu].data) = 1
  /\ hdus[diffim.hdu] = LineHDU

\* the last call was get_lensed_locations and it returned
Lensed == last.op = "get_lensed_locations" /\ last.raised = "none"

\* the sky position of row i of the table an image keeps, through the
\* transform of that image
SkyOfTemplate(i) ==
  LET row == planter.templateim.v.lensed_locations.v.rows[i]
  IN pixel_to_skycoord(row.x_fit, row.y_fit, planter.templateim.v.wcs)
SkyOfSearch(i) ==
  LET row == planter.searchim.v.lensed_locations.v.rows[i]
  IN pixel_to_skycoord(row.x_fit, row.y_fit, planter.searchim.v.wcs)
SkyOfDiff(i) ==
  LET row == diffim.lensed_locations.v.rows[i]
  IN pixel_to_skycoord(row.x_fit, row.y_fit, WCS(hdus[diffim.hdu].header))

\* C17: for every offset passed to get_lensed_locations, the positions it
\* produces for the template, the search and the difference image lie,
\* through each image's own transform, at one and the same sky position
C17_SameSkyPosition ==
  Lensed =>
    \A i \in 1..Len(last.phis) :
      SkyOfTemplate(i) = SkyOfSearch(i) /\ SkyOfTemplate(i) = SkyOfDiff(i)

\* the three frames differ by a translation at most
SameOrientation ==
  /\ planter.searchim.v.wcs.crota2 = planter.templateim.v.wcs.crota2
  /\ WCS(hdus[diffim.hdu].header).crota2 = planter.templateim.v.wcs.crota2

\* between frames that differ by a translation the positions do coincide
C17_SameSkyPositionTranslated ==
  (Lensed /\ SameOrientation) =>
    \A i \in 1..Len(last.phis) :
      SkyOfTemplate(i) = SkyOfSearch(i) /\ SkyOfTemplate(i) = SkyOfDiff(i)

\* the flux column of a table
FluxColumn(table) == [i \in 1..Len(table.rows) |-> table.rows[i].flux_fit]

\* each returned table has one row per offset, and the three have the same
\* flux column
RowPerOffset ==
  /\ \A k \in 1..3 : Len(last.ret[k].rows) = Len(last.phis)
  /\ FluxColumn(last.ret[1]) = FluxColumn(last.ret[2])
  /\ FluxColumn(last.ret[2]) = FluxColumn(last.ret[3])

\* C18 as stated: get_lensed_locations returns the tables in the order
\* (template, search, difference), each with one row per offset and the same
\* flux column
C18_ResultOrder ==
  Lensed =>
    /\ last.ret[1] = planter.templateim.v.lensed_locations.v
    /\ last.ret[2] = planter.searchim.v.lensed_locations.v
    /\ last.ret[3] = diffim.lensed_locations.v
    /\ RowPerOffset

\* C18, amended: get_lensed_locations returns the tables in the order
\* (difference, search, template), each with one row per offset and the same
\* flux column
C18_ResultOrderDiffFirst ==
  Lensed =>
    /\ last.ret[1] = diffim.lensed_locations.v
    /\ last.ret[2] = planter.searchim.v.lensed_locations.v
    /\ last.ret[3] = planter.templateim.v.lensed_locations.v
    /\ RowPerOffset

\* a call on two offsets returned, and the table of the difference image is
\* not that of the template
C18_Witness ==
  /\ Lensed /\ Len(last.phis) = 2 /\ Truthy(last.fluxes)
  /\ diffim.lensed_locations.v # planter.templateim.v.lensed_locations.v
  /\ diffim.lensed_locations.v # planter.searchim.v.lensed_locations.v

\* C21: build_epsf_model called with save_suffix = None completes, sets
\* self.epsf to the fitted model and writes no file
C21_BuildWithoutSuffix ==
  [][ (last'.op = "build_epsf_model" /\ ~last'.save_suffix.set)
        => ( /\ last'.raised = "none"
             /\ last'.fitted
             /\ diffim'.epsf.set
             /\ env' = env )
    ]_vars

\* C23: every bounding box extract_psf_stars builds for a star of the
\* catalog, stars near the lower image edges included, is 25 wide and 25 high
C23_ConstantBoxSize ==
  (last.op = "extract_psf_stars" /\ last.gaiacat.set) =>
    \A n \in 1..Len(CatalogRows) :
      LET bbox == bbox_of(CatalogRows[n])
      IN /\ bbox.ixmax - bbox.ixmin = BBoxSize
         /\ bbox.iymax - bbox.iymin = BBoxSize

\* the boxes of the stars at least half a box away from the lower edges
C23_ConstantBoxSizeInside ==
  (last.op = "extract_psf_stars" /\ last.gaiacat.set) =>
    \A n \in 1..Len(CatalogRows) :
      LET bbox == bbox_of(CatalogRows[n])
      IN (CatalogRows[n].x2 >= BBoxSize /\ CatalogRows[n].y2 >= BBoxSize) =>
           /\ bbox.ixmax - bbox.ixmin = BBoxSize
           /\ bbox.iymax - bbox.iymin = BBoxSize

\* C24: calculate_detection_efficiency called with an explicit
\* fake_plant_locations completes and returns the efficiency and a detection
\* table with one row per given location, at exactly those locations
C24_CallerLocations ==
  (last.op = "calculate_detection_efficiency" /\ last.fake_plant_locations.set) =>
    /\ last.raised = "none"
    /\ planter.detection_efficiency.set
    /\ planter.detection_table.set
    /\ Len(planter.detection_table.v) = Len(last.fake_plant_locations.v)
    /\ \A n \in 1..Len(planter.detection_table.v) :
         <<planter.detection_table.v[n].pixX, planter.detection_table.v[n].pixY>>
           = last.fake_plant_locations.v[n]

\* the pixel p = (row, col) lies in the nrows x ncols window centred on the
\* position pix = (x, y), widened by slack pixels on each side
InWindow(p, pix, shape, slack) ==
  /\ 2 * Abs(p[1] - pix[2]) <= shape[1] + 2 * slack
  /\ 2 * Abs(p[2] - pix[1]) <= shape[2] + 2 * slack

\* the pixels of the copy plant_fakes returned that differ from the original
ChangedPixels == {p \in DOMAIN hdus["sci"].data : hdus["cp"].data[p] # hdus["sci"].data[p]}

\* C27: in the copy plant_fakes returns, every pixel that differs from the
\* original lies inside the nrows x ncols window centred on a target
\* position, for targets near an image edge as well
C27_OnlyWindowTouched ==
  (last.op = "plant_fakes" /\ last.raised = "none") =>
    \A p \in ChangedPixels :
      \E n \in 1..Len(last.locations) :
        InWindow(p, last.locations[n], last.epsf.shape, 0)

\* the same with one pixel of slack for the rounding of the window bounds
C27_OnlyWindowTouchedSlack ==
  (last.op = "plant_fakes" /\ last.raised = "none") =>
    \A p \in ChangedPixels :
      \E n \in 1..Len(last.locations) :
        InWindow(p, last.locations[n], last.epsf.shape, 1)

\* with the slack, and for targets whose window lies inside the frame
C27_OnlyWindowTouchedInside ==
  (last.op = "plant_fakes" /\ last.raised = "none"
     /\ \A n \in 1..Len(last.locations) : last.locations[n][1] >= 1) =>
    \A p \in ChangedPixels :
      \E n \in 1..Len(last.locations) :
        InWindow(p, last.locations[n], last.epsf.shape, 1)

\* the rows of the detection table whose detected value is 1
Flagged == {n \in 1..Len(DetectionTable) : DetectionTable[n].detected = 1}

\* C28: the efficiency the matcher returns, times the number of fakes, is
\* the number of rows of the detection table whose detected value is 1, for
\* any catalog and any fakes, fakes at the same position included
C28_EfficiencyAgreesWithFlags ==
  Matched =>
    /\ Efficiency[2] = Len(DetectionTable)
    /\ Efficiency[1] = Cardinality(Flagged)

\* the permutations of 1..n
Perms(n) == {f \in [1..n -> 1..n] : \A i, j \in 1..n : f[i] = f[j] => i = j}

\* the ids and the positions of the fakes of the detection table
TableIds == [n \in 1..Len(DetectionTable) |-> DetectionTable[n].fakeID]
TablePositions ==
  [n \in 1..Len(DetectionTable) |-> <<DetectionTable[n].pixX, DetectionTable[n].pixY>>]

\* C29: for the fakes of a call, the efficiency and the fakes flagged
\* detected are the same for every permutation of the rows of the catalog
C29_DetectionOrder ==
  Matched =>
    \A f \in Perms(Len(last.tbl_pixels)) :
      LET permuted == [k \in 1..Len(last.tbl_pixels) |-> last.tbl_pixels[f[k]]]
          m == match_fakes(TableIds, TablePositions, permuted, last.gridSize)
      IN /\ m.efficiency = Efficiency
         /\ m.detection_table = DetectionTable

\* the matcher returned on a catalog of two different detections, matched
\* to two different fakes
C29_Witness ==
  /\ Matched /\ Len(last.tbl_pixels) >= 2
  /\ last.tbl_pixels[1] # last.tbl_pixels[2]
  /\ Cardinality(Flagged) >= 2

\* C30: after the matcher returns, the planter's diffim is still a FitsImage
\* that carries its source catalog, and a second call with default arguments
\* returns with the same efficiency and the same detection table
C30_Repeatable ==
  /\ [](Matched => (diffim.isFitsImage /\ diffim.sourcecatalog.set))
  /\ [][ ( /\ Matched
           /\ last'.op = "calculate_detection_efficiency"
           /\ last'.image \in {None, Some(diffim.hdu)}
           /\ ~last'.fake_plant_locations.set /\ ~last'.catalog.set
           /\ last'.gridSize = DefaultGridSize )
           => ( /\ last'.raised = "none"
                /\ planter'.detection_efficiency = planter.detection_efficiency
                /\ planter'.detection_table = planter.detection_table )
       ]_vars

\* C25: read_fakesn_catalog reads the catalog from exactly the file the caller
\* names when a filename is given, whatever save_suffix is, and from
\* <image-root>_<save_suffix>.ecsv when none is given
C25_FileSelection ==
  [][(last'.op = "read_fakesn_catalog")
       => /\ (last'.filename.set /\ env.addto.set)
               => last'.raised = "none" /\ diffim'.fakesncat = env.addto
          /\ (~last'.filename.set /\ last'.save_suffix.set /\ env.fsncat.set)
               => last'.raised = "none" /\ diffim'.fakesncat = env.fsncat]_vars

\* the fakes of the image a catalog is written for: the FK groups of its header
NFakes == Cardinality(FKGroups(hdus[diffim.hdu].header))

\* C26: whenever write_to_catalog is given add_to_filename, the file of that
\* name afterwards holds the rows it held before followed by one row per fake
\* of this image, and the per-image catalog <image-root>_<save_suffix>.ecsv
\* exists as well unless save_suffix is None
C26_AppendToCatalog ==
  [][(last'.op = "write_to_catalog" /\ last'.add_to_filename.set)
       => LET before == IF env.addto.set THEN env.addto.v ELSE <<>>
          IN /\ last'.raised = "none"
             /\ env'.addto.set
             /\ Len(env'.addto.v) = Len(before) + NFakes
             /\ SubSeq(env'.addto.v, 1, Len(before)) = before
             /\ last'.save_suffix.set => env'.fsncat.set]_vars

\* the same for the calls that write no per-image catalog, on an image that
\* plant_fakes wrote, while no per-image catalog lies next to the image
C26_AppendToCatalogAlone ==
  [][(/\ last'.op = "write_to_catalog" /\ last'.add_to_filename.set
      /\ ~last'.save_suffix.set /\ ~env.fsncat.set
      /\ HdrHas(hdus[diffim.hdu].header, FK(Idx(0), fSCA)))
       => LET before == IF env.addto.set THEN env.addto.v ELSE <<>>
          IN /\ last'.raised = "none"
             /\ env'.addto.set
             /\ Len(env'.addto.v) = Len(before) + NFakes
             /\ SubSeq(env'.addto.v, 1, Len(before)) = before]_vars

\* C22: measure_zeropoint called while the image has no stellar photometry or
\* no Gaia catalog, and read_gaia_sources called with a suffix whose catalog
\* file does not exist, return -1 without raising and leave zeropoint and
\* gaia_source_table as they were
C22_SentinelReturns ==
  [][(\/ /\ last'.op = "measure_zeropoint"
         /\ ~diffim.stellar_phot_table.set \/ ~diffim.gaia_source_table.set
      \/ /\ last'.op = "read_gaia_sources"
         /\ last'.save_suffix.set /\ ~env.ecsv.set)
       => /\ last'.raised = "none"
          /\ last'.ret = IntV(-1)
          /\ diffim'.zeropoint = diffim.zeropoint
          /\ diffim'.gaia_source_table = diffim.gaia_source_table]_vars

\* measure_zeropoint returned -1 on an image with photometry and no catalog
C22_Witness ==
  /\ last.op = "measure_zeropoint" /\ last.ret = IntV(-1)
  /\ diffim.stellar_phot_table.set /\ ~diffim.gaia_source_table.set

\* read_gaia_sources returned -1 on an image with a zero point and a catalog
C22_WitnessRead ==
  /\ last.op = "read_gaia_sources" /\ last.ret = IntV(-1)
  /\ diffim.zeropoint.set /\ diffim.gaia_source_table.set

====
